---- MODULE Spec2Model ----
(***************************************************************************)
(* Gateway supervisor of moltworker (src/src/gateway/process.ts).          *)
(*                                                                         *)
(* The module-level state of process.ts (process-list cache, the two       *)
(* in-flight promise slots, the throttle timestamp) is shared by every     *)
(* invocation of findExistingMoltbotProcess and ensureMoltbotGateway.      *)
(* Invocations run on one JavaScript event loop: code between two awaits   *)
(* is atomic, and an await on a sandbox call (listProcesses, kill,         *)
(* waitForPort, startProcess, getLogs, exists, restore) suspends the       *)
(* invocation for an arbitrary time.  Each action below is one such        *)
(* atomic segment: it begins where a sandbox call settles and runs to the  *)
(* next await.  Time is Date.now() in milliseconds.                        *)
(***************************************************************************)
EXTENDS Integers, Sequences, FiniteSets, TLC

\* ------------------------------------------------------------------------
\* Program constants
\* ------------------------------------------------------------------------
PROCESS_LIST_TTL_MS == 3000
PROCESS_LIST_STALE_MS == 15000
START_THROTTLE_MS == 15000
STARTUP_TIMEOUT_MS == 90000

\* ------------------------------------------------------------------------
\* Bounds of the model
\* ------------------------------------------------------------------------
NumCallers == 2
MaxCalls == 2
MaxInitProcs == 1
MaxListLen == 2
MaxTicks == 1
MaxListTicks == 2
MaxFiles == 2
MaxOps == 2
PageLimit == 2
FullPage == 6
MaxDeferred == 4
MaxCronRuns == 1
MaxFaults == 1
NumRequests == 2

Callers == 1..NumCallers
Requests == 1..NumRequests

\* Date.now() when the worker isolate is loaded: an epoch time, far later
\* than the zero the module-level timestamps are initialised with.
BootTime == PROCESS_LIST_STALE_MS + START_THROTTLE_MS

\* The amounts by which the clock is observed to advance between events.
TickSteps == {PROCESS_LIST_TTL_MS, START_THROTTLE_MS, STARTUP_TIMEOUT_MS}

\* ------------------------------------------------------------------------
\* Process descriptors
\* ------------------------------------------------------------------------
GatewayCommand == "/usr/local/bin/start-openclaw.sh"

\* Commands seen in a sandbox, each with the substrings of interest that
\* String.prototype.includes finds in it.
CommandSubstrings ==
  [cmd \in {GatewayCommand, "clawdbot gateway --port 18789",
            "openclaw devices list", "sleep 60",
            "sh -c 'openclaw gateway; openclaw --version'"} |->
     CASE cmd = GatewayCommand -> {"start-openclaw.sh"}
       [] cmd = "clawdbot gateway --port 18789" -> {"clawdbot gateway"}
       [] cmd = "openclaw devices list" -> {"openclaw devices"}
       [] cmd = "sleep 60" -> {}
       [] OTHER -> {"openclaw gateway", "openclaw --version"}]

Commands == DOMAIN CommandSubstrings

Includes(cmd, pattern) == pattern \in CommandSubstrings[cmd]

IsGatewayProcess(cmd) ==
  \/ Includes(cmd, "start-openclaw.sh")
  \/ Includes(cmd, "openclaw gateway")
  \/ Includes(cmd, "start-moltbot.sh")
  \/ Includes(cmd, "clawdbot gateway")

IsCliCommand(cmd) ==
  \/ Includes(cmd, "openclaw devices")
  \/ Includes(cmd, "openclaw --version")
  \/ Includes(cmd, "openclaw onboard")
  \/ Includes(cmd, "clawdbot devices")
  \/ Includes(cmd, "clawdbot --version")

Statuses == {"starting", "running", "stopped", "dead"}

IsLive(status) == status = "starting" \/ status = "running"

\* Commands and statuses of the processes a sandbox holds before the
\* supervisor first runs.
InitCommands == {GatewayCommand, "openclaw devices list"}
InitStatuses == {"running", "dead"}

RECURSIVE SeqsUpTo(_, _)
SeqsUpTo(S, n) ==
  IF n = 0 THEN {<<>>}
  ELSE LET shorter == SeqsUpTo(S, n - 1)
       IN shorter \cup {Append(s, x) : s \in {t \in shorter : Len(t) = n - 1}, x \in S}

\* The loop with the cleanup condition narrowed to dead gateways: a second
\* live gateway is neither selected nor queued.
RECURSIVE ClassifyLoopLiveDuplicatesKept(_, _, _, _)
ClassifyLoopLiveDuplicatesKept(processes, i, gatewayProcess, zombiesToKill) ==
  IF i > Len(processes) THEN [gatewayProcess |-> gatewayProcess,
                              zombiesToKill |-> zombiesToKill]
  ELSE LET proc == processes[i]
           isGatewayProcess == IsGatewayProcess(proc.command)
           isCliCommand == IsCliCommand(proc.command)
       IN IF isGatewayProcess /\ ~isCliCommand
          THEN IF IsLive(proc.status)
               THEN ClassifyLoopLiveDuplicatesKept(
                      processes, i + 1,
                      IF gatewayProcess = 0 THEN proc.id ELSE gatewayProcess,
                      zombiesToKill)
               ELSE ClassifyLoopLiveDuplicatesKept(processes, i + 1, gatewayProcess,
                                                   Append(zombiesToKill, proc.id))
          ELSE IF isCliCommand /\ proc.status # "running" /\ proc.status # "starting"
               THEN ClassifyLoopLiveDuplicatesKept(processes, i + 1, gatewayProcess,
                                                   Append(zombiesToKill, proc.id))
               ELSE ClassifyLoopLiveDuplicatesKept(processes, i + 1, gatewayProcess,
                                                   zombiesToKill)

\* The loop of findExistingMoltbotProcess over a snapshot, entry by entry
\* from index i, carrying gatewayProcess (an id, 0 for null) and
\* zombiesToKill.
RECURSIVE ClassifyLoop(_, _, _, _)
ClassifyLoop(processes, i, gatewayProcess, zombiesToKill) ==
  IF i > Len(processes) THEN [gatewayProcess |-> gatewayProcess,
                              zombiesToKill |-> zombiesToKill]
  ELSE LET proc == processes[i]
           isGatewayProcess == IsGatewayProcess(proc.command)
           isCliCommand == IsCliCommand(proc.command)
       IN IF isGatewayProcess /\ ~isCliCommand
          THEN IF IsLive(proc.status) /\ gatewayProcess = 0
               THEN ClassifyLoop(processes, i + 1, proc.id, zombiesToKill)
               ELSE ClassifyLoop(processes, i + 1, gatewayProcess,
                                 Append(zombiesToKill, proc.id))
          ELSE IF isCliCommand /\ proc.status # "running" /\ proc.status # "starting"
               THEN ClassifyLoop(processes, i + 1, gatewayProcess,
                                 Append(zombiesToKill, proc.id))
               ELSE ClassifyLoop(processes, i + 1, gatewayProcess, zombiesToKill)

Classify(processes) == ClassifyLoop(processes, 1, 0, <<>>)

\* ------------------------------------------------------------------------
\* State
\* ------------------------------------------------------------------------
VARIABLES
  now,                \* Date.now()
  ticks,              \* clock advances observed so far
  procs,              \* the sandbox's process table; a process's id is its index
  kills,              \* kill() calls that have reached each process
  configPresent,      \* a config marker file exists in the sandbox
  cachedProcesses,    \* [present, list, preKill]: present = FALSE models null
  cachedAt,
  listInFlight,       \* [pending, now, read, list, preKill]: the pending
                      \* listProcesses call, the `now` its creator captured
                      \* and what the sandbox has read for it
  lastListError,
  lastListErrorAt,
  startInFlight,      \* index into attempts, 0 for null
  lastStartAttemptAt,
  attempts,           \* the start attempts (the async closures), in creation order
  inv,                \* per caller: the locals of its running invocation
  result,             \* per caller: how its last invocation settled
  calls,              \* invocations made so far
  batch,              \* every invocation so far is an ensureReady made before
                      \* any settled, with no live gateway process and a
                      \* clear throttle
  listCalls,          \* sandbox.listProcesses() calls that have not settled
  bucketBound,        \* env.MOLTBOT_BUCKET is configured
  pageLimit,          \* the most objects the bucket lists on one page
  fs,                 \* the sandbox's files: absolute path -> content
  store,              \* the bucket's objects: key -> content
  sy,                 \* the locals of the running syncToR2
  rs,                 \* the locals of the running restoreFromR2
  df,                 \* the locals of the running restoreDeferredFiles
  ops,                \* sync and restore invocations made so far
  faults,             \* sandbox and bucket calls of the engine that failed so far
  reqs,               \* per request of the catch-all proxy: the locals of its handler
  hs                  \* per caller: the locals of the status route or of the
                      \* scheduled handler it runs

cacheVars == <<cachedProcesses, cachedAt, listInFlight, lastListError, lastListErrorAt>>
startVars == <<startInFlight, lastStartAttemptAt, attempts>>
sandboxVars == <<procs, kills, configPresent>>
syncVars == <<bucketBound, pageLimit, fs, store, sy, rs, df, ops, faults>>
workerVars == <<reqs, hs>>
vars == <<now, ticks, sandboxVars, cacheVars, startVars, inv, result, calls, batch,
         listCalls, syncVars, workerVars>>

NoResult == [kind |-> "none", proc |-> 0]
NullResult == [kind |-> "null", proc |-> 0]
FoundResult(id) == [kind |-> "found", proc |-> id]
ProcessResult(id) == [kind |-> "process", proc |-> id]
ErrorResult(kind) == [kind |-> kind, proc |-> 0]

\* The locals of an invocation: where it is suspended (pc), the function
\* called (op), and the variables processes, gatewayProcess (returned as
\* existingProcess), zombiesToKill of the source; killed lists the kills its
\* findExisting has made, awaiting is the attempt whose promise it awaits.
Idle ==
  [pc |-> "idle", op |-> "none", processes |-> <<>>, existingProcess |-> 0,
   zombiesToKill |-> <<>>, killed |-> <<>>, waitSince |-> 0, timedOut |-> FALSE,
   awaiting |-> 0]

Snapshot == [i \in 1..Len(procs) |->
               [id |-> i, command |-> procs[i].command, status |-> procs[i].status]]

Pending(k) == attempts[k].pc # "settled"

\* startProcess calls issued so far: one by every attempt that has passed
\* line 216.
StartCalls ==
  Cardinality({k \in 1..Len(attempts) : attempts[k].pc \notin {"exists", "restore", "start"}})

\* The locals of a handler that calls into the gateway module: the
\* status route (kind "status") or the scheduled handler (kind "cron"),
\* where it is suspended (pc), and the record of what it did: response is
\* the status the route answered, triggered that it called
\* ensureMoltbotGateway in the background, ensured what the awaited
\* ensureMoltbotGateway resolved to (0 when it did not), synced that
\* syncToR2 was called, outcome how the scheduled handler settled.
NoHandler ==
  [kind |-> "none", pc |-> "none", response |-> "none", triggered |-> FALSE,
   process |-> 0, ensured |-> 0, synced |-> FALSE, outcome |-> "none"]

\* The call that the handler of caller c awaits has settled: its
\* continuation is ready to run.
Resumes(c) == hs[c].pc \in {"find", "ensure", "findAgain"} /\ inv[c].pc = "idle"

\* No invocation has a continuation ready to run: the event loop is idle,
\* so a sandbox call may settle and the clock may advance.
Quiescent ==
  \A c \in Callers : inv[c].pc \notin {"classify", "listFailed"} /\ ~Resumes(c)

\* ------------------------------------------------------------------------
\* State sync engine (sync.ts): paths, exclusion rules, contents
\* ------------------------------------------------------------------------
\* A path is a sequence of segments (the parts between '/'), a segment a
\* sequence of tokens, split before every '.' and '-': d.bak-20240101 is
\* <<"d", ".bak", "-20240101">>.  A store key is a path as well: its first
\* segment is the prefix without the '/'.
EXCLUDED_EXTENSIONS == {".lock", ".log", ".tmp", ".sample"}

EXCLUDED_DIRS == {<<".git">>, <<"node_modules">>}

BATCH_SIZE == 5

LastSegment(path) == IF path = <<>> THEN <<>> ELSE path[Len(path)]

\* filePath.endsWith(ext), for an ext that is one token.
EndsWith(path, ext) ==
  LET seg == LastSegment(path) IN seg # <<>> /\ seg[Len(seg)] = ext

\* /\.bak(?:[.-]|$)/.test(filePath): a token .bak followed by another
\* token of its segment, or ending the path.
MatchesBak(path) ==
  \E i \in 1..Len(path) : \E j \in 1..Len(path[i]) :
    /\ path[i][j] = ".bak"
    /\ j < Len(path[i]) \/ i = Len(path)

\* The exclusion rule with the directory names left out.
shouldExcludeBySuffixOnly(path) ==
  \/ \E ext \in EXCLUDED_EXTENSIONS : EndsWith(path, ext)
  \/ MatchesBak(path)

shouldExclude(path) ==
  \/ \E ext \in EXCLUDED_EXTENSIONS : EndsWith(path, ext)
  \/ MatchesBak(path)
  \/ \E i \in 1..Len(path) : path[i] \in EXCLUDED_DIRS

\* Every object counted as immediate.
isSessionFileNever(relPath) == FALSE

\* SESSION_DIR_PATTERN.test('/' + relPath) && relPath.endsWith('.jsonl')
isSessionFile(relPath) ==
  /\ \E i \in 1..(Len(relPath) - 3) :
       /\ relPath[i] = <<"agents">>
       /\ relPath[i + 1] # <<>>
       /\ relPath[i + 2] = <<"sessions">>
  /\ EndsWith(relPath, ".jsonl")

\* path.startsWith(dir + '/')
StartsWith(path, dir) ==
  /\ Len(path) > Len(dir)
  /\ SubSeq(path, 1, Len(dir)) = dir

\* path.slice(dir.length + 1) for a path under dir
RelativeTo(path, dir) == SubSeq(path, Len(dir) + 1, Len(path))

NewConfigDir == <<<<"root">>, <<".openclaw">>>>
LegacyConfigDir == <<<<"root">>, <<".clawdbot">>>>
WorkspaceDir == <<<<"root">>, <<"clawd">>>>
SkillsDir == <<<<"root">>, <<"clawd">>, <<"skills">>>>
NewConfigFile == NewConfigDir \o <<<<"openclaw", ".json">>>>
LegacyConfigFile == LegacyConfigDir \o <<<<"clawdbot", ".json">>>>
MarkerKey == <<<<".last", "-sync">>>>

\* File contents are byte sequences.  A text file is valid UTF-8; byte 255
\* occurs in no valid UTF-8 sequence.
TextContent == <<65>>
BinaryContent == <<255, 65>>

\* The sandbox reports a file as binary when it is not valid UTF-8, and
\* then returns it base64-encoded.
IsValidUtf8(bytes) == \A i \in 1..Len(bytes) : bytes[i] < 128

Base64Encode(bytes) == [encoding |-> "base64", of |-> bytes]

\* atob() and the charCodeAt loop of lines 125-129
Base64Decode(b64) == b64.of

\* A string is a sequence of code points; the strings here are ASCII or
\* hold U+FFFD (65533), which UTF-8 encodes as 239 191 189.
RECURSIVE Utf8Encode(_)
Utf8Encode(str) ==
  IF str = <<>> THEN <<>>
  ELSE (IF Head(str) = 65533 THEN <<239, 191, 189>> ELSE <<Head(str)>>)
       \o Utf8Encode(Tail(str))

\* R2ObjectBody.text(): every byte that belongs to no valid sequence
\* decodes to U+FFFD.
RECURSIVE Utf8Decode(_)
Utf8Decode(bytes) ==
  IF bytes = <<>> THEN <<>>
  ELSE IF Len(bytes) >= 3 /\ SubSeq(bytes, 1, 3) = <<239, 191, 189>>
       THEN <<65533>> \o Utf8Decode(SubSeq(bytes, 4, Len(bytes)))
       ELSE <<(IF Head(bytes) < 128 THEN Head(bytes) ELSE 65533)>>
            \o Utf8Decode(Tail(bytes))

\* sandbox.readFile(path) on a file with the given bytes
ReadFile(bytes) ==
  IF IsValidUtf8(bytes)
  THEN [isBinary |-> FALSE, encoding |-> "utf-8", content |-> Utf8Decode(bytes)]
  ELSE [isBinary |-> TRUE, encoding |-> "base64", content |-> Base64Encode(bytes)]

\* Lines 123-133: the bytes bucket.put stores for a read result
UploadBytes(readResult) ==
  IF readResult.isBinary /\ readResult.encoding = "base64"
  THEN Base64Decode(readResult.content)
  ELSE Utf8Encode(readResult.content)

\* Lines 235-236: the bytes sandbox.writeFile stores for an object
RestoredBytes(objectBytes) == Utf8Encode(Utf8Decode(objectBytes))

\* new Date().toISOString(), reduced to the decimal digits of the time
RECURSIVE ToISOString(_)
ToISOString(t) ==
  IF t < 10 THEN <<48 + t>> ELSE ToISOString(t \div 10) \o <<48 + (t % 10)>>

\* The files a sandbox may hold, in the order listFiles reports them.
\* The last one is where a restore puts a config file backed up from the
\* legacy directory.
PathOrder ==
  << NewConfigFile,
     LegacyConfigFile,
     NewConfigDir \o <<<<"agents">>, <<"main">>, <<"sessions">>, <<"s", ".jsonl">>>>,
     WorkspaceDir \o <<<<"a", ".json">>>>,
     WorkspaceDir \o <<<<"b", ".lock">>>>,
     WorkspaceDir \o <<<<"c", ".log">>>>,
     WorkspaceDir \o <<<<"d", ".bak", "-20240101">>>>,
     SkillsDir \o <<<<"x", ".md">>>>,
     WorkspaceDir \o <<<<"logo", ".png">>>>,
     WorkspaceDir \o <<<<".git">>, <<"config">>>>,
     WorkspaceDir \o <<<<"e", ".bakery">>>>,
     WorkspaceDir \o <<<<"f", ".bak">>, <<"g", ".md">>>>,
     WorkspaceDir \o <<<<"t", ".tmp">>>>,
     WorkspaceDir \o <<<<"h", ".sample">>>>,
     WorkspaceDir \o <<<<"node_modules">>, <<"p", ".js">>>>,
     NewConfigDir \o <<<<"clawdbot", ".json">>>> >>

SourcePaths == {PathOrder[i] : i \in 1..(Len(PathOrder) - 1)}

ContentOf(path) == IF EndsWith(path, ".png") THEN BinaryContent ELSE TextContent

\* The workspace of the example: a.json, b.lock, c.log, d.bak-20240101 and
\* skills/x.md, with a config file.
ExampleFiles ==
  {NewConfigFile} \cup {PathOrder[i] : i \in 4..8}

FilesWith(paths) == [p \in paths |-> ContentOf(p)]

\* sandbox.listFiles(dir, {recursive: true, includeHidden: true}): the
\* files under dir, each nested one after an entry for its directory.
RECURSIVE ListFrom(_, _, _)
ListFrom(files, dir, i) ==
  IF i > Len(PathOrder) THEN <<>>
  ELSE LET p == PathOrder[i]
       IN (IF p \in DOMAIN files /\ StartsWith(p, dir)
           THEN (IF Len(p) > Len(dir) + 1
                 THEN <<[absolutePath |-> SubSeq(p, 1, Len(p) - 1), type |-> "directory"]>>
                 ELSE <<>>)
                \o <<[absolutePath |-> p, type |-> "file"]>>
           ELSE <<>>)
          \o ListFrom(files, dir, i + 1)

ListFiles(dir) == ListFrom(fs, dir, 1)

\* Lines 75-89
syncSteps(configDir) ==
  << [name |-> "config", sourcePath |-> configDir, r2Prefix |-> <<<<"openclaw">>>>,
      excludeDirs |-> {}],
     [name |-> "workspace", sourcePath |-> WorkspaceDir, r2Prefix |-> <<<<"workspace">>>>,
      excludeDirs |-> {<<<<"skills">>>>}],
     [name |-> "skills", sourcePath |-> SkillsDir, r2Prefix |-> <<<<"skills">>>>,
      excludeDirs |-> {}] >>

\* Lines 109-113: the entry passes every `continue` ahead of readFile.
Uploadable(step, file) ==
  /\ file.type = "file"
  /\ ~shouldExclude(file.absolutePath)
  /\ ~\E dir \in step.excludeDirs :
        StartsWith(RelativeTo(file.absolutePath, step.sourcePath), dir)

\* Line 115
R2Key(step, file) == step.r2Prefix \o RelativeTo(file.absolutePath, step.sourcePath)

\* The entries left once the loop has passed those it skips without a call.
RECURSIVE SkipEntries(_, _)
SkipEntries(step, files) ==
  IF files = <<>> THEN <<>>
  ELSE IF Uploadable(step, Head(files)) THEN files
       ELSE SkipEntries(step, Tail(files))

NoOutcome == [kind |-> "none", error |-> "", details |-> "", lastSync |-> <<>>,
              deferredKeys |-> <<>>]
Failure(error) == [NoOutcome EXCEPT !.kind = "failure", !.error = error]
Thrown == [NoOutcome EXCEPT !.kind = "thrown"]

\* The locals of syncToR2: where it is suspended (pc), the index of the
\* step, configDir, the entries of `files` from the current one on, the
\* bytes about to be put.  The rest records the invocation: source is the
\* sandbox's files when it was called, puts and markerPuts the bucket.put
\* calls that resolved, unread the files whose read reported no success,
\* unlisted the steps whose listFiles rejected, outcome what it returned.
SyncIdle ==
  [pc |-> "idle", step |-> 0, configDir |-> <<>>, files |-> <<>>, bytes |-> <<>>,
   source |-> << >>, puts |-> {}, markerPuts |-> 0, unread |-> {}, unlisted |-> {},
   outcome |-> NoOutcome]

\* The keys a bucket may hold besides the marker, in the order bucket.list
\* reports them.  <<<<"openclaw">>, <<>>>> is the key "openclaw/".
KeyOrder ==
  << <<<<"openclaw">>, <<>>>>,
     <<<<"openclaw">>, <<"openclaw", ".json">>>>,
     <<<<"openclaw">>, <<"clawdbot", ".json">>>>,
     <<<<"openclaw">>, <<"agents">>, <<"main">>, <<"sessions">>, <<"s", ".jsonl">>>>,
     <<<<"workspace">>, <<"a", ".json">>>>,
     <<<<"workspace">>, <<"b", ".lock">>>>,
     <<<<"workspace">>, <<"d", ".bak", "-20240101">>>>,
     <<<<"workspace">>, <<"logo", ".png">>>>,
     <<<<"workspace">>, <<".git">>, <<"config">>>>,
     <<<<"workspace">>, <<"e", ".bakery">>>>,
     <<<<"workspace">>, <<"f", ".bak">>, <<"g", ".md">>>>,
     <<<<"workspace">>, <<"skills">>, <<"x", ".md">>>>,
     <<<<"workspace">>, <<"old">>, <<"agents">>, <<"main">>, <<"sessions">>, <<"s", ".jsonl">>>>,
     <<<<"skills">>, <<"x", ".md">>>> >>

StoreKeys == {KeyOrder[i] : i \in 1..Len(KeyOrder)}

\* Further keys: two more plain workspace files, a second session file, a
\* key under none of the three prefixes, a session file under skills/.
MoreKeys ==
  << <<<<"workspace">>, <<"c", ".md">>>>,
     <<<<"workspace">>, <<"h", ".txt">>>>,
     <<<<"openclaw">>, <<"agents">>, <<"main">>, <<"sessions">>, <<"t", ".jsonl">>>>,
     <<<<"other">>, <<"agents">>, <<"main">>, <<"sessions">>, <<"s", ".jsonl">>>>,
     <<<<"skills">>, <<"agents">>, <<"main">>, <<"sessions">>, <<"s", ".jsonl">>>> >>

\* Every key, in the order bucket.list reports them.
ListOrder == KeyOrder \o MoreKeys

AllKeys == {ListOrder[i] : i \in 1..Len(ListOrder)}

ObjectsWith(keys) == [k \in keys |-> ContentOf(k)]

\* Lines 181-185
restoreSteps ==
  << [r2Prefix |-> <<<<"openclaw">>>>, targetPath |-> NewConfigDir],
     [r2Prefix |-> <<<<"workspace">>>>, targetPath |-> WorkspaceDir],
     [r2Prefix |-> <<<<"skills">>>>, targetPath |-> SkillsDir] >>

\* bucket.list({prefix, cursor}): the objects under the prefix, at most
\* pageLimit of them per page; the cursor is the number already listed.
RECURSIVE KeysFrom(_, _, _)
KeysFrom(objects, prefix, i) ==
  IF i > Len(ListOrder) THEN <<>>
  ELSE (IF ListOrder[i] \in DOMAIN objects /\ StartsWith(ListOrder[i], prefix)
        THEN <<ListOrder[i]>> ELSE <<>>)
       \o KeysFrom(objects, prefix, i + 1)

BucketList(prefix, cursor) ==
  LET all == KeysFrom(store, prefix, 1)
      last == IF cursor + pageLimit < Len(all) THEN cursor + pageLimit ELSE Len(all)
  IN [objects |-> SubSeq(all, cursor + 1, last),
      truncated |-> last < Len(all),
      cursor |-> last]

\* Line 205: obj.key.slice(prefix.length).length > 0
HasRelPath(key, prefix) == RelativeTo(key, prefix) # <<<<>>>>

\* Lines 204-218: the objects of a page that go to `immediate`
RECURSIVE Immediate(_, _)
Immediate(objects, prefix) ==
  IF objects = <<>> THEN <<>>
  ELSE LET relPath == RelativeTo(Head(objects), prefix)
       IN (IF /\ HasRelPath(Head(objects), prefix)
              /\ ~shouldExclude(relPath)
              /\ ~isSessionFile(relPath)
           THEN <<Head(objects)>> ELSE <<>>)
          \o Immediate(Tail(objects), prefix)

\* Lines 204-218: the objects of a page pushed to deferredKeys
RECURSIVE Deferred(_, _)
Deferred(objects, prefix) ==
  IF objects = <<>> THEN <<>>
  ELSE LET relPath == RelativeTo(Head(objects), prefix)
       IN (IF /\ HasRelPath(Head(objects), prefix)
              /\ ~shouldExclude(relPath)
              /\ isSessionFile(relPath)
           THEN <<Head(objects)>> ELSE <<>>)
          \o Deferred(Tail(objects), prefix)

\* Line 225
TargetFile(step, key) == step.targetPath \o RelativeTo(key, step.r2Prefix)

\* The locals of restoreFromR2: where it is suspended (pc), the index of
\* the step, lastSync, the cursor and the truncated flag of the last page,
\* the objects of `immediate` not yet in a batch, deferredKeys.  chains
\* holds the transfers begun by batch.map, each with its target and the
\* call it awaits; they outlive the invocation when Promise.all rejects.
\* The rest records the invocation: emptyTarget says that the sandbox had
\* no files when it was called, lists, markerGets, mkdirs, fetched and
\* written are its calls, outcome what it returned.
RestoreIdle ==
  [pc |-> "idle", step |-> 0, lastSync |-> <<>>, cursor |-> 0, truncated |-> FALSE,
   immediate |-> <<>>, deferredKeys |-> <<>>, chains |-> << >>, emptyTarget |-> FALSE,
   lists |-> 0, markerGets |-> 0, mkdirs |-> {}, fetched |-> {}, written |-> {},
   outcome |-> NoOutcome]

\* Line 275 of restoreDeferredFiles
DEFERRED_BATCH_SIZE == 3

\* Lines 278-282
prefixMap ==
  << [prefix |-> <<<<"openclaw">>>>, target |-> NewConfigDir],
     [prefix |-> <<<<"workspace">>>>, target |-> WorkspaceDir],
     [prefix |-> <<<<"skills">>>>, target |-> SkillsDir] >>

\* Lines 288-300: the target file of a key, <<>> when the transfer returns
\* at line 297 (no prefix matches, or nothing follows the prefix).
RECURSIVE DeferredTargetFrom(_, _)
DeferredTargetFrom(key, i) ==
  IF i > Len(prefixMap) THEN <<>>
  ELSE IF StartsWith(key, prefixMap[i].prefix)
       THEN (IF HasRelPath(key, prefixMap[i].prefix)
             THEN prefixMap[i].target \o RelativeTo(key, prefixMap[i].prefix)
             ELSE <<>>)
       ELSE DeferredTargetFrom(key, i + 1)

DeferredTarget(key) == DeferredTargetFrom(key, 1)

\* The locals of restoreDeferredFiles: where it is suspended (pc), the
\* keys not yet in a batch, the transfers begun by batch.map.  The rest
\* records the invocation: arg is the keys it was called with, batches the
\* batches it began, mkdirs and written its calls, outcome how it
\* settled.
DeferredIdle ==
  [pc |-> "idle", keys |-> <<>>, chains |-> << >>, arg |-> <<>>, batches |-> 0,
   mkdirs |-> {}, written |-> {}, outcome |-> "none"]

\* No sync or restore is running, the sandbox has no files and the bucket
\* no objects.
EngineIdle ==
  /\ bucketBound = TRUE
  /\ pageLimit = PageLimit
  /\ fs = << >>
  /\ store = << >>
  /\ sy = SyncIdle
  /\ rs = RestoreIdle
  /\ df = DeferredIdle
  /\ ops = 0
  /\ faults = 0

\* A request that has not arrived: the locals of the handler of
\* app.all('*') and the record of what it did.  ensured and background say
\* how the awaited and the background ensureMoltbotGateway settled.
NoRequest ==
  [pc |-> "none", isWebSocketRequest |-> FALSE, acceptsHtml |-> FALSE,
   isReadyRedirect |-> FALSE, isBlooioInbound |-> FALSE,
   ensured |-> "none", background |-> "none",
   containerFetches |-> 0, wsConnects |-> 0,
   webhookSecret |-> "", rawText |-> "",
   signature |-> [present |-> FALSE, tPart |-> FALSE, t |-> 0, v1Part |-> FALSE, v1 |-> <<>>],
   response |-> [status |-> 0, body |-> ""]]

\* No request is being handled and no handler runs.
WorkerIdle ==
  /\ reqs = [r \in Requests |-> NoRequest]
  /\ hs = [c \in Callers |-> NoHandler]

\* Line 11: no snapshot is cached.  preKill records that the snapshot was
\* read from the sandbox before a zombie kill that has since completed.
NoCache == [present |-> FALSE, list |-> <<>>, preKill |-> FALSE]

\* Line 13: no listing is in the slot.  Of a pending listing, now is the
\* time of the call that created it; read tells whether the sandbox has
\* read its process table for it, and list is what it read.
NoListing == [pending |-> FALSE, now |-> 0, read |-> FALSE, list |-> <<>>,
              preKill |-> FALSE]

\* The module state of process.ts after loading, with the given process
\* table in the sandbox.
ProcessIdle(table) ==
  /\ now = BootTime
  /\ ticks = 0
  /\ procs = table
  /\ kills = [i \in 1..Len(table) |-> 0]
  /\ configPresent = FALSE
  /\ cachedProcesses = NoCache
  /\ cachedAt = 0
  /\ listInFlight = NoListing
  /\ lastListError = FALSE
  /\ lastListErrorAt = 0
  /\ startInFlight = 0
  /\ lastStartAttemptAt = 0
  /\ attempts = <<>>
  /\ inv = [c \in Callers |-> Idle]
  /\ result = [c \in Callers |-> NoResult]
  /\ calls = 0
  /\ batch = TRUE

InitWith(table) ==
  /\ ProcessIdle(table)
  /\ listCalls = 0
  /\ EngineIdle
  /\ WorkerIdle

Init ==
  \E table \in SeqsUpTo([command : InitCommands, status : InitStatuses], MaxInitProcs) :
    InitWith(table)

\* ------------------------------------------------------------------------
\* listProcessesCached
\* ------------------------------------------------------------------------
\* Line 26 taken as never true: every refresh past the TTL check issues a
\* backend call of its own.
SlotNeverTaken == FALSE

\* Line 26: a listing promise is in the slot.
SlotTaken == listInFlight.pending

CacheFresh(t) == cachedProcesses.present /\ t - cachedAt < PROCESS_LIST_TTL_MS

CacheServable(t) == cachedProcesses.present /\ t - cachedAt < PROCESS_LIST_STALE_MS

\* Lines 54-56: lastError TRUE stands for a non-null message.
getProcessListHealth == [lastError |-> lastListError, lastErrorAt |-> lastListErrorAt]

\* Every caller that awaits listInFlight resumes with the given list.
Deliver(list) ==
  [c \in Callers |-> IF inv[c].pc = "awaitList"
                     THEN [inv[c] EXCEPT !.pc = "classify", !.processes = list]
                     ELSE inv[c]]

\* Lines 29-30: the sandbox serves the pending listProcesses call: it
\* reads its process table, at some moment between the call and the
\* moment the promise settles.
ListRead ==
  /\ Quiescent
  /\ listInFlight.pending
  /\ ~listInFlight.read
  /\ listInFlight' = [listInFlight EXCEPT !.read = TRUE, !.list = Snapshot]
  /\ UNCHANGED <<now, ticks, workerVars, syncVars, sandboxVars, cachedProcesses, cachedAt,
                 lastListError, lastListErrorAt, listCalls, startVars, inv, result, calls,
                 batch>>

\* sandbox.listProcesses() resolves: the .then handler and the .finally
\* handler run, then every caller awaiting listInFlight receives the list.
ListResolve ==
  /\ Quiescent
  /\ listInFlight.pending
  /\ listInFlight.read
  /\ cachedProcesses' = [present |-> TRUE, list |-> listInFlight.list,
                         preKill |-> listInFlight.preKill]
  /\ cachedAt' = now
  /\ lastListError' = FALSE
  /\ lastListErrorAt' = 0
  /\ listInFlight' = NoListing
  /\ listCalls' = listCalls - 1
  /\ inv' = Deliver(listInFlight.list)
  /\ UNCHANGED <<now, ticks, workerVars, syncVars, sandboxVars, startVars, result, calls, batch>>

\* A rejection that is recorded only when nothing can be served.
ListRejectUnrecordedWhenServed ==
  /\ Quiescent
  /\ listInFlight.pending
  /\ lastListError' = (lastListError \/ ~CacheServable(listInFlight.now))
  /\ lastListErrorAt' = IF CacheServable(listInFlight.now) THEN lastListErrorAt ELSE now
  /\ listInFlight' = NoListing
  /\ listCalls' = listCalls - 1
  /\ inv' = IF CacheServable(listInFlight.now)
            THEN Deliver(cachedProcesses.list)
            ELSE [c \in Callers |-> IF inv[c].pc = "awaitList"
                                    THEN [inv[c] EXCEPT !.pc = "listFailed"]
                                    ELSE inv[c]]
  /\ UNCHANGED <<now, ticks, workerVars, syncVars, sandboxVars, cachedProcesses, cachedAt, startVars,
                 result, calls, batch>>

\* sandbox.listProcesses() rejects: the .catch handler serves the cached
\* snapshot if it was younger than the staleness bound at the time of the
\* call that created listInFlight, and rethrows otherwise.
ListReject ==
  /\ Quiescent
  /\ listInFlight.pending
  /\ lastListError' = TRUE
  /\ lastListErrorAt' = now
  /\ listInFlight' = NoListing
  /\ listCalls' = listCalls - 1
  /\ inv' = IF CacheServable(listInFlight.now)
            THEN Deliver(cachedProcesses.list)
            ELSE [c \in Callers |-> IF inv[c].pc = "awaitList"
                                    THEN [inv[c] EXCEPT !.pc = "listFailed"]
                                    ELSE inv[c]]
  /\ UNCHANGED <<now, ticks, workerVars, syncVars, sandboxVars, cachedProcesses, cachedAt, startVars,
                 result, calls, batch>>

\* ------------------------------------------------------------------------
\* ensureMoltbotGateway: the throttle check and the creation of an attempt
\* ------------------------------------------------------------------------
\* The throttle check made against the cache TTL instead of the window.
ThrottledByTtl(t) == t - lastStartAttemptAt < PROCESS_LIST_TTL_MS

Throttled(t) == t - lastStartAttemptAt < START_THROTTLE_MS

\* origin: what led the creator to the start step: "none" (no process
\* found), "timeout" or "error" (the wait on an existing process failed).
\* probes and restore: how the exists() probes and restoreFromR2 settled,
\* kept until startProcess settles.
NewAttempt(c, origin) ==
  [pc |-> "exists", proc |-> 0, outcome |-> "none", owner |-> c,
   admittedAt |-> now, since |-> 0, origin |-> origin, portOk |-> FALSE,
   probes |-> "pending", restore |-> "none"]

OutcomeResult(a) ==
  IF a.outcome = "ok" THEN ProcessResult(a.proc) ELSE ErrorResult(a.outcome)

\* Lines 178-185 and the first synchronous segment of the closure: caller c
\* either throws the throttling error or records the attempt time, creates
\* the attempt (which issues its two exists() probes) and awaits it.
StartStep(c, origin) ==
  IF Throttled(now)
  THEN /\ inv' = [inv EXCEPT ![c] = Idle]
       /\ result' = [result EXCEPT ![c] = ErrorResult("throttled")]
       /\ UNCHANGED startVars
  ELSE /\ lastStartAttemptAt' = now
       /\ attempts' = Append(attempts, NewAttempt(c, origin))
       /\ startInFlight' = Len(attempts) + 1
       /\ inv' = [inv EXCEPT ![c] = [Idle EXCEPT !.pc = "awaitStart", !.op = "ensure",
                                                 !.awaiting = Len(attempts) + 1]]
       /\ UNCHANGED result

\* What follows findExistingMoltbotProcess returning g (0 for null) to
\* caller c: the return to an outside caller, or lines 150-185.
AfterFind(c, g) ==
  IF inv[c].op = "find"
  THEN /\ inv' = [inv EXCEPT ![c] = Idle]
       /\ result' = [result EXCEPT ![c] = IF g = 0 THEN NullResult ELSE FoundResult(g)]
       /\ UNCHANGED startVars
  ELSE IF g # 0
       THEN /\ inv' = [inv EXCEPT ![c] = [Idle EXCEPT !.pc = "waitPort", !.op = "ensure",
                                                      !.existingProcess = g,
                                                      !.waitSince = now]]
            /\ UNCHANGED <<startVars, result>>
       ELSE StartStep(c, "none")

LiveGatewayExists ==
  \E i \in 1..Len(procs) :
    /\ IsGatewayProcess(procs[i].command) /\ ~IsCliCommand(procs[i].command)
    /\ IsLive(procs[i].status)

\* An invocation begins: ensureMoltbotGateway (o = "ensure") or
\* findExistingMoltbotProcess (o = "find") is called, up to its first
\* await.  Line 144 returns the promise in the slot; otherwise
\* listProcessesCached returns a fresh snapshot at once, or the caller
\* awaits listInFlight, which it creates when the slot is empty.
Begin(c, o) ==
  /\ batch' = (/\ batch /\ o = "ensure" /\ \A d \in Callers : result[d] = NoResult
               /\ ~LiveGatewayExists /\ ~Throttled(now))
  /\ IF o = "ensure" /\ startInFlight # 0
     THEN /\ IF Pending(startInFlight)
             THEN /\ inv' = [inv EXCEPT ![c] = [Idle EXCEPT !.pc = "awaitStart", !.op = o,
                                                            !.awaiting = startInFlight]]
                  /\ result' = [result EXCEPT ![c] = NoResult]
             ELSE /\ inv' = inv
                  /\ result' = [result EXCEPT ![c] = OutcomeResult(attempts[startInFlight])]
          /\ UNCHANGED <<listInFlight, listCalls>>
     ELSE /\ result' = [result EXCEPT ![c] = NoResult]
          /\ IF CacheFresh(now)
             THEN /\ inv' = [inv EXCEPT ![c] = [Idle EXCEPT !.pc = "classify", !.op = o,
                                                   !.processes = cachedProcesses.list]]
                  /\ UNCHANGED <<listInFlight, listCalls>>
             ELSE /\ inv' = [inv EXCEPT ![c] = [Idle EXCEPT !.pc = "awaitList", !.op = o]]
                  /\ IF SlotTaken
                     THEN UNCHANGED <<listInFlight, listCalls>>
                     ELSE /\ listInFlight' = [NoListing EXCEPT !.pending = TRUE, !.now = now]
                          /\ listCalls' = listCalls + 1
  /\ UNCHANGED <<now, ticks, syncVars, sandboxVars, cachedProcesses, cachedAt, lastListError,
                 lastListErrorAt, startVars>>

\* ensureMoltbotGateway or findExistingMoltbotProcess is called by a caller
\* that runs no handler.
Call(c, o) ==
  /\ inv[c].pc = "idle"
  /\ hs[c].pc \in {"none", "done"}
  /\ calls < MaxCalls
  /\ calls' = calls + 1
  /\ Begin(c, o)
  /\ UNCHANGED workerVars

\* ------------------------------------------------------------------------
\* findExistingMoltbotProcess
\* ------------------------------------------------------------------------
\* A kill that is never sent to the sandbox.
KillEffectSkipped(i, ok) == UNCHANGED <<kills, procs>>

\* The effect of proc.kill() on process i: it terminates the process, or
\* it throws (ok = FALSE) and leaves the process as it was.
KillEffect(i, ok) ==
  /\ kills' = [kills EXCEPT ![i] = @ + 1]
  /\ procs' = IF ok THEN [procs EXCEPT ![i].status = "dead"] ELSE procs

\* Lines 83-111: the caller holds a snapshot and classifies it.  With
\* zombies to kill it issues the first kill; otherwise findExisting returns.
ClassifySnapshot(c) ==
  /\ inv[c].pc = "classify"
  /\ LET r == Classify(inv[c].processes)
     IN IF Len(r.zombiesToKill) > 0
        THEN /\ inv' = [inv EXCEPT ![c].pc = "killZombie",
                                   ![c].existingProcess = r.gatewayProcess,
                                   ![c].zombiesToKill = r.zombiesToKill]
             /\ UNCHANGED <<startVars, result>>
        ELSE AfterFind(c, r.gatewayProcess)
  /\ UNCHANGED <<now, ticks, workerVars, syncVars, listCalls, sandboxVars, cacheVars, calls, batch>>

\* Lines 78-81: the listing threw; findExisting returns null.
ListFailed(c) ==
  /\ inv[c].pc = "listFailed"
  /\ AfterFind(c, 0)
  /\ UNCHANGED <<now, ticks, workerVars, syncVars, listCalls, sandboxVars, cacheVars, calls, batch>>

\* A zombie kill whose failure leaves findExisting as an exception.
KillZombieRethrowing(c, ok) ==
  /\ Quiescent
  /\ inv[c].pc = "killZombie"
  /\ KillEffect(Head(inv[c].zombiesToKill), ok)
  /\ IF ~ok
     THEN /\ inv' = [inv EXCEPT ![c] = Idle]
          /\ result' = [result EXCEPT ![c] = ErrorResult("killErr")]
          /\ UNCHANGED <<startVars, cachedProcesses, cachedAt, listInFlight>>
     ELSE IF Len(inv[c].zombiesToKill) > 1
     THEN /\ inv' = [inv EXCEPT ![c].zombiesToKill = Tail(@),
                                ![c].killed = Append(@, Head(inv[c].zombiesToKill))]
          /\ UNCHANGED <<startVars, result, cachedProcesses, cachedAt, listInFlight>>
     ELSE /\ cachedProcesses' = NoCache
          /\ cachedAt' = 0
          /\ listInFlight' = [listInFlight EXCEPT !.preKill = listInFlight.read]
          /\ AfterFind(c, inv[c].existingProcess)
  /\ UNCHANGED <<now, ticks, workerVars, syncVars, listCalls, configPresent, lastListError,
                 lastListErrorAt, calls, batch>>

\* Lines 116-126: the kill of the next zombie settles (its failure is
\* swallowed).  After the last one the cache is invalidated and
\* findExisting returns.
KillZombie(c, ok) ==
  /\ Quiescent
  /\ inv[c].pc = "killZombie"
  /\ KillEffect(Head(inv[c].zombiesToKill), ok)
  /\ IF Len(inv[c].zombiesToKill) > 1
     THEN /\ inv' = [inv EXCEPT ![c].zombiesToKill = Tail(@),
                                ![c].killed = Append(@, Head(inv[c].zombiesToKill))]
          /\ UNCHANGED <<startVars, result, cachedProcesses, cachedAt, listInFlight>>
     ELSE /\ cachedProcesses' = NoCache
          /\ cachedAt' = 0
          /\ listInFlight' = [listInFlight EXCEPT !.preKill = listInFlight.read]
          /\ AfterFind(c, inv[c].existingProcess)
  /\ UNCHANGED <<now, ticks, workerVars, syncVars, listCalls, configPresent, lastListError,
                 lastListErrorAt, calls, batch>>

\* ------------------------------------------------------------------------
\* ensureMoltbotGateway: the wait on an existing process
\* ------------------------------------------------------------------------
\* A wait that ends by killing the process it waited on.
WaitPortOkThenKill(c) ==
  /\ Quiescent
  /\ inv[c].pc = "waitPort"
  /\ IsLive(procs[inv[c].existingProcess].status)
  /\ now - inv[c].waitSince < STARTUP_TIMEOUT_MS
  /\ inv' = [inv EXCEPT ![c] = Idle]
  /\ result' = [result EXCEPT ![c] = ProcessResult(inv[c].existingProcess)]
  /\ KillEffect(inv[c].existingProcess, TRUE)
  /\ UNCHANGED <<now, ticks, workerVars, syncVars, listCalls, configPresent, cacheVars, startVars, calls, batch>>

\* Lines 163-165: the port of the existing process accepts a connection
\* before the timeout; the process is returned.
WaitPortOk(c) ==
  /\ Quiescent
  /\ inv[c].pc = "waitPort"
  /\ IsLive(procs[inv[c].existingProcess].status)
  /\ now - inv[c].waitSince < STARTUP_TIMEOUT_MS
  /\ inv' = [inv EXCEPT ![c] = Idle]
  /\ result' = [result EXCEPT ![c] = ProcessResult(inv[c].existingProcess)]
  /\ UNCHANGED <<now, ticks, workerVars, syncVars, listCalls, sandboxVars, cacheVars, startVars, calls, batch>>

\* Lines 167-171: waitForPort rejects, at the timeout or earlier with
\* another error; the caller issues the kill of the existing process.
WaitPortFail(c) ==
  /\ Quiescent
  /\ inv[c].pc = "waitPort"
  /\ inv' = [inv EXCEPT ![c].pc = "killExisting",
                        ![c].timedOut = now - inv[c].waitSince >= STARTUP_TIMEOUT_MS]
  /\ UNCHANGED <<now, ticks, workerVars, syncVars, listCalls, sandboxVars, cacheVars, startVars, result, calls, batch>>

\* Lines 171-185: the kill of the existing process settles (its failure is
\* logged); the caller goes on to the throttle check.
KillExisting(c, ok) ==
  /\ Quiescent
  /\ inv[c].pc = "killExisting"
  /\ KillEffect(inv[c].existingProcess, ok)
  /\ StartStep(c, IF inv[c].timedOut THEN "timeout" ELSE "error")
  /\ UNCHANGED <<now, ticks, workerVars, syncVars, listCalls, configPresent, cacheVars, calls, batch>>

\* ------------------------------------------------------------------------
\* ensureMoltbotGateway: the start attempt (the async closure, lines 185-262)
\* ------------------------------------------------------------------------
\* What remains of an attempt once its promise has settled.
Settled(a, outcome) ==
  [a EXCEPT !.pc = "settled", !.outcome = outcome, !.owner = 0, !.since = 0,
            !.origin = "none", !.probes = "pending", !.restore = "none"]

\* Settling with the slot emptied on success only.
SettleKeepingSlotOnError(k, outcome) ==
  LET a == Settled(attempts[k], outcome)
      waiters == {c \in Callers : inv[c].pc = "awaitStart" /\ inv[c].awaiting = k}
  IN /\ attempts' = [attempts EXCEPT ![k] = a]
     /\ startInFlight' = IF outcome = "ok" THEN 0 ELSE startInFlight
     /\ inv' = [c \in Callers |-> IF c \in waiters THEN Idle ELSE inv[c]]
     /\ result' = [c \in Callers |-> IF c \in waiters THEN OutcomeResult(a) ELSE result[c]]

\* The closure of attempt k settles.  The creator's continuation runs
\* first (line 267 empties the slot, whatever it holds), then every caller
\* that awaits this attempt settles with its outcome.
Settle(k, outcome) ==
  LET a == Settled(attempts[k], outcome)
      waiters == {c \in Callers : inv[c].pc = "awaitStart" /\ inv[c].awaiting = k}
  IN /\ attempts' = [attempts EXCEPT ![k] = a]
     /\ startInFlight' = 0
     /\ inv' = [c \in Callers |-> IF c \in waiters THEN Idle ELSE inv[c]]
     /\ result' = [c \in Callers |-> IF c \in waiters THEN OutcomeResult(a) ELSE result[c]]

\* Lines 190-206: the two exists() probes settle.  With no config marker
\* restoreFromR2 is called; a probe that throws skips the restore.
AttemptProbe(k, probeOk) ==
  /\ Quiescent
  /\ k \in 1..Len(attempts)
  /\ attempts[k].pc = "exists"
  /\ attempts' = [attempts EXCEPT ![k].pc = IF probeOk /\ ~configPresent
                                            THEN "restore" ELSE "start",
                                  ![k].probes = IF probeOk THEN "ok" ELSE "threw"]
  /\ UNCHANGED <<now, ticks, workerVars, syncVars, listCalls, sandboxVars, cacheVars, startInFlight,
                 lastStartAttemptAt, inv, result, calls, batch>>

\* A restore whose failure rejects the attempt.
AttemptRestoreFatal(k, restored) ==
  /\ Quiescent
  /\ k \in 1..Len(attempts)
  /\ attempts[k].pc = "restore"
  /\ IF restored
     THEN /\ attempts' = [attempts EXCEPT ![k].pc = "start", ![k].restore = "ok"]
          /\ UNCHANGED <<startInFlight, inv, result>>
     ELSE Settle(k, "startErr")
  /\ configPresent' = (configPresent \/ restored)
  /\ UNCHANGED <<now, ticks, workerVars, syncVars, listCalls, procs, kills, cacheVars,
                 lastStartAttemptAt, calls, batch>>

\* Lines 195-206: restoreFromR2 settles: it restored a backup, or it
\* returned without one or with a failure, or it threw.  In every case the
\* closure goes on to issue startProcess.
AttemptRestore(k, restored) ==
  /\ Quiescent
  /\ k \in 1..Len(attempts)
  /\ attempts[k].pc = "restore"
  /\ attempts' = [attempts EXCEPT ![k].pc = "start",
                                  ![k].restore = IF restored THEN "ok" ELSE "failed"]
  /\ configPresent' = (configPresent \/ restored)
  /\ UNCHANGED <<now, ticks, workerVars, syncVars, listCalls, procs, kills, cacheVars, startInFlight,
                 lastStartAttemptAt, inv, result, calls, batch>>

\* Lines 214-228: startProcess settles.  It resolves with a new process,
\* on whose port the closure then waits, or it rejects and the closure
\* rethrows.
AttemptStart(k, ok) ==
  /\ Quiescent
  /\ k \in 1..Len(attempts)
  /\ attempts[k].pc = "start"
  /\ IF ok
     THEN /\ procs' = Append(procs, [command |-> GatewayCommand, status |-> "running"])
          /\ kills' = Append(kills, 0)
          /\ attempts' = [attempts EXCEPT ![k].pc = "wait", ![k].proc = Len(procs) + 1,
                                          ![k].since = now, ![k].probes = "pending",
                                          ![k].restore = "none"]
          /\ UNCHANGED <<startInFlight, inv, result>>
     ELSE /\ Settle(k, "startErr")
          /\ UNCHANGED <<procs, kills>>
  /\ UNCHANGED <<now, ticks, workerVars, syncVars, listCalls, configPresent, cacheVars, lastStartAttemptAt, calls, batch>>

\* Lines 228-231: the port of the new process accepts a connection before
\* the timeout; the closure calls getLogs.
AttemptWaitOk(k) ==
  /\ Quiescent
  /\ k \in 1..Len(attempts)
  /\ attempts[k].pc = "wait"
  /\ IsLive(procs[attempts[k].proc].status)
  /\ now - attempts[k].since < STARTUP_TIMEOUT_MS
  /\ attempts' = [attempts EXCEPT ![k].pc = "logs", ![k].portOk = TRUE]
  /\ UNCHANGED <<now, ticks, workerVars, syncVars, listCalls, sandboxVars, cacheVars, startInFlight,
                 lastStartAttemptAt, inv, result, calls, batch>>

\* A failed wait after which the process is left alone.
AttemptWaitFailNoKill(k) ==
  /\ Quiescent
  /\ k \in 1..Len(attempts)
  /\ attempts[k].pc = "wait"
  /\ attempts' = [attempts EXCEPT ![k].pc = "failLogs"]
  /\ UNCHANGED <<now, ticks, workerVars, syncVars, listCalls, sandboxVars, cacheVars, startInFlight,
                 lastStartAttemptAt, inv, result, calls, batch>>

\* Lines 234-238: waitForPort rejects; the closure issues the kill.
AttemptWaitFail(k) ==
  /\ Quiescent
  /\ k \in 1..Len(attempts)
  /\ attempts[k].pc = "wait"
  /\ attempts' = [attempts EXCEPT ![k].pc = "kill"]
  /\ UNCHANGED <<now, ticks, workerVars, syncVars, listCalls, sandboxVars, cacheVars, startInFlight,
                 lastStartAttemptAt, inv, result, calls, batch>>

\* Lines 231-238 and 261: getLogs settles after the port was reached.  It
\* resolves and the closure returns the process; or it rejects inside the
\* same try block, and the catch clause issues the kill.
AttemptLogs(k, ok) ==
  /\ Quiescent
  /\ k \in 1..Len(attempts)
  /\ attempts[k].pc = "logs"
  /\ IF ok
     THEN Settle(k, "ok")
     ELSE /\ attempts' = [attempts EXCEPT ![k].pc = "kill"]
          /\ UNCHANGED <<startInFlight, inv, result>>
  /\ UNCHANGED <<now, ticks, workerVars, syncVars, listCalls, sandboxVars, cacheVars, lastStartAttemptAt, calls, batch>>

\* Lines 237-243: the kill of the failed process settles (its failure is
\* ignored); the closure calls getLogs.
AttemptKill(k, ok) ==
  /\ Quiescent
  /\ k \in 1..Len(attempts)
  /\ attempts[k].pc = "kill"
  /\ KillEffect(attempts[k].proc, ok)
  /\ attempts' = [attempts EXCEPT ![k].pc = "failLogs"]
  /\ UNCHANGED <<now, ticks, workerVars, syncVars, listCalls, configPresent, cacheVars, startInFlight,
                 lastStartAttemptAt, inv, result, calls, batch>>

\* A failure path that ends by issuing startProcess again.
AttemptFailLogsRetrying(k, ok) ==
  /\ Quiescent
  /\ k \in 1..Len(attempts)
  /\ attempts[k].pc = "failLogs"
  /\ IF ok
     THEN Settle(k, "descErr")
     ELSE /\ attempts' = [attempts EXCEPT ![k].pc = "start"]
          /\ UNCHANGED <<startInFlight, inv, result>>
  /\ UNCHANGED <<now, ticks, workerVars, syncVars, listCalls, sandboxVars, cacheVars, lastStartAttemptAt, calls, batch>>

\* Lines 243-255: getLogs settles on the failure path.  The closure throws
\* the descriptive error, or the caught error if getLogs rejected.
AttemptFailLogs(k, ok) ==
  /\ Quiescent
  /\ k \in 1..Len(attempts)
  /\ attempts[k].pc = "failLogs"
  /\ Settle(k, IF ok THEN "descErr" ELSE "waitErr")
  /\ UNCHANGED <<now, ticks, workerVars, syncVars, listCalls, sandboxVars, cacheVars, lastStartAttemptAt, calls, batch>>

\* ------------------------------------------------------------------------
\* The clock
\* ------------------------------------------------------------------------
\* The clock advances.  A waitForPort that is pending rejects no later
\* than its timeout, so the clock does not pass that point while it waits.
Tick(d) ==
  /\ Quiescent
  /\ ticks < MaxTicks
  /\ ticks' = ticks + 1
  /\ \A c \in Callers :
       inv[c].pc = "waitPort" => now + d - inv[c].waitSince <= STARTUP_TIMEOUT_MS
  /\ \A k \in 1..Len(attempts) :
       attempts[k].pc = "wait" => now + d - attempts[k].since <= STARTUP_TIMEOUT_MS
  /\ now' = now + d
  /\ UNCHANGED <<workerVars, syncVars, listCalls, sandboxVars, cacheVars, startVars, inv, result,
                 calls, batch>>

Next ==
  \/ \E c \in Callers, o \in {"ensure", "find"} : Call(c, o)
  \/ ListRead
  \/ ListResolve
  \/ ListReject
  \/ \E c \in Callers : ClassifySnapshot(c)
  \/ \E c \in Callers : ListFailed(c)
  \/ \E c \in Callers, ok \in BOOLEAN : KillZombie(c, ok)
  \/ \E c \in Callers : WaitPortOk(c)
  \/ \E c \in Callers : WaitPortFail(c)
  \/ \E c \in Callers, ok \in BOOLEAN : KillExisting(c, ok)
  \/ \E k \in 1..MaxCalls, ok \in BOOLEAN : AttemptProbe(k, ok)
  \/ \E k \in 1..MaxCalls, restored \in BOOLEAN : AttemptRestore(k, restored)
  \/ \E k \in 1..MaxCalls, ok \in BOOLEAN : AttemptStart(k, ok)
  \/ \E k \in 1..MaxCalls : AttemptWaitOk(k)
  \/ \E k \in 1..MaxCalls : AttemptWaitFail(k)
  \/ \E k \in 1..MaxCalls, ok \in BOOLEAN : AttemptLogs(k, ok)
  \/ \E k \in 1..MaxCalls, ok \in BOOLEAN : AttemptKill(k, ok)
  \/ \E k \in 1..MaxCalls, ok \in BOOLEAN : AttemptFailLogs(k, ok)
  \/ \E d \in TickSteps : Tick(d)

Spec == Init /\ [][Next]_vars

\* ------------------------------------------------------------------------
\* findExistingMoltbotProcess alone, over arbitrary process lists
\* ------------------------------------------------------------------------
ListStatuses == {"starting", "running", "dead"}

InitFind ==
  \E table \in SeqsUpTo([command : Commands, status : ListStatuses], MaxListLen) :
    InitWith(table)

NextFind ==
  \/ \E c \in Callers : Call(c, "find")
  \/ ListRead
  \/ ListResolve
  \/ ListReject
  \/ \E c \in Callers : ClassifySnapshot(c)
  \/ \E c \in Callers : ListFailed(c)
  \/ \E c \in Callers, ok \in BOOLEAN : KillZombie(c, ok)

SpecFind == InitFind /\ [][NextFind]_vars

\* ------------------------------------------------------------------------
\* syncToR2
\* ------------------------------------------------------------------------
processVars == <<sandboxVars, cacheVars, startVars, inv, result, calls, batch, listCalls>>

\* syncToR2 returns: its locals are gone, the record of its puts stays.
SyncReturn(outcome) ==
  [SyncIdle EXCEPT !.outcome = outcome, !.source = sy.source, !.puts = sy.puts,
                   !.markerPuts = sy.markerPuts, !.unread = sy.unread,
                   !.unlisted = sy.unlisted]

\* Lines 92-141 between two awaits: with `files` the entries not yet
\* visited, the loop runs to the next readFile, or to the listFiles of the
\* next step, or past the last step to the put of the marker.
SyncContinue(files) ==
  LET rest == SkipEntries(syncSteps(sy.configDir)[sy.step], files)
  IN IF rest # <<>>
     THEN [sy EXCEPT !.pc = "read", !.files = rest, !.bytes = <<>>]
     ELSE IF sy.step < 3
          THEN [sy EXCEPT !.pc = "list", !.step = @ + 1, !.files = <<>>, !.bytes = <<>>]
          ELSE [sy EXCEPT !.pc = "marker", !.files = <<>>, !.bytes = <<>>]

\* A call of the engine settles: it resolves (ok), or it fails, which at
\* most MaxFaults calls do.
Settles(ok) ==
  /\ ok \/ faults < MaxFaults
  /\ faults' = IF ok THEN faults ELSE faults + 1

\* A transfer that has not settled.
Transferring(chains) == {k \in DOMAIN chains : chains[k].pc \in {"mkdir", "get", "write"}}

\* No sync or restore is running and no transfer is pending.
EngineQuiet ==
  /\ sy.pc = "idle"
  /\ rs.pc = "idle"
  /\ df.pc = "idle"
  /\ Transferring(rs.chains) = {}
  /\ Transferring(df.chains) = {}

\* The bucket taken to be bound whatever the environment holds.
BucketMissingNever == FALSE

\* Lines 46-47 and 168-169: `if (!bucket)`
BucketMissing == ~bucketBound

\* Lines 45-54: syncToR2 is called; without a bucket it returns at once,
\* otherwise it probes the current config file.
SyncCall ==
  /\ EngineQuiet
  /\ ops < MaxOps
  /\ ops' = ops + 1
  /\ sy' = IF BucketMissing
           THEN [SyncIdle EXCEPT !.outcome = Failure("R2 storage is not configured")]
           ELSE [SyncIdle EXCEPT !.pc = "existsNew", !.source = fs]
  /\ UNCHANGED <<now, ticks, workerVars, processVars, bucketBound, pageLimit, df, fs, store, rs, faults>>

\* The legacy probe taken to find its file whatever the sandbox holds.
HasLegacyConfigAlways == TRUE

\* Line 57: checkLegacy.exists
HasLegacyConfig == LegacyConfigFile \in DOMAIN fs

\* Lines 54-56 and 67-73: the probe of openclaw.json settles.
SyncExistsNew(ok) ==
  /\ sy.pc = "existsNew"
  /\ sy' = IF ~ok THEN SyncReturn(Failure("Failed to verify source files"))
           ELSE IF NewConfigFile \in DOMAIN fs
                THEN [sy EXCEPT !.pc = "list", !.step = 1, !.configDir = NewConfigDir]
                ELSE [sy EXCEPT !.pc = "existsLegacy"]
  /\ Settles(ok)
  /\ UNCHANGED <<now, ticks, workerVars, processVars, bucketBound, pageLimit, df, fs, store, rs, ops>>

\* Lines 56-73: the probe of clawdbot.json settles.
SyncExistsLegacy(ok) ==
  /\ sy.pc = "existsLegacy"
  /\ sy' = IF ~ok THEN SyncReturn(Failure("Failed to verify source files"))
           ELSE IF HasLegacyConfig
                THEN [sy EXCEPT !.pc = "list", !.step = 1, !.configDir = LegacyConfigDir]
                ELSE SyncReturn(Failure("Sync aborted: no config file found"))
  /\ Settles(ok)
  /\ UNCHANGED <<now, ticks, workerVars, processVars, bucketBound, pageLimit, df, fs, store, rs, ops>>

\* Lines 96-113: listFiles of the current step settles; a rejection skips
\* the step.
SyncList(ok) ==
  /\ sy.pc = "list"
  /\ sy' = IF ok THEN SyncContinue(ListFiles(syncSteps(sy.configDir)[sy.step].sourcePath))
           ELSE [SyncContinue(<<>>) EXCEPT !.unlisted = @ \cup {sy.step}]
  /\ Settles(ok)
  /\ UNCHANGED <<now, ticks, workerVars, processVars, bucketBound, pageLimit, df, fs, store, rs, ops>>

\* Lines 117-133: readFile of the current entry settles.  A result with
\* success = false skips the file; a rejection reaches the catch clause of
\* line 145; otherwise the put of its bytes is issued.
SyncRead(outcome) ==
  /\ sy.pc = "read"
  /\ sy' = CASE outcome = "ok" ->
                  [sy EXCEPT !.pc = "put",
                             !.bytes = UploadBytes(ReadFile(fs[Head(sy.files).absolutePath]))]
             [] outcome = "unsuccessful" ->
                  [SyncContinue(Tail(sy.files))
                     EXCEPT !.unread = @ \cup {Head(sy.files).absolutePath}]
             [] OTHER -> SyncReturn(Failure("Sync error"))
  /\ Settles(outcome = "ok")
  /\ UNCHANGED <<now, ticks, workerVars, processVars, bucketBound, pageLimit, df, fs, store, rs, ops>>

\* A put whose rejection is swallowed: the loop goes on.
SyncPutSwallowing(ok) ==
  /\ sy.pc = "put"
  /\ LET key == R2Key(syncSteps(sy.configDir)[sy.step], Head(sy.files))
     IN IF ok
        THEN /\ store' = (key :> sy.bytes) @@ store
             /\ sy' = [SyncContinue(Tail(sy.files)) EXCEPT !.puts = @ \cup {key}]
        ELSE /\ sy' = SyncContinue(Tail(sy.files))
             /\ UNCHANGED store
  /\ Settles(ok)
  /\ UNCHANGED <<now, ticks, workerVars, processVars, bucketBound, pageLimit, df, fs, rs, ops>>

\* Lines 130-134: the put of the current file settles.
SyncPut(ok) ==
  /\ sy.pc = "put"
  /\ LET key == R2Key(syncSteps(sy.configDir)[sy.step], Head(sy.files))
     IN IF ok
        THEN /\ store' = (key :> sy.bytes) @@ store
             /\ sy' = [SyncContinue(Tail(sy.files)) EXCEPT !.puts = @ \cup {key}]
        ELSE /\ sy' = SyncReturn(Failure("Sync error"))
             /\ UNCHANGED store
  /\ Settles(ok)
  /\ UNCHANGED <<now, ticks, workerVars, processVars, bucketBound, pageLimit, df, fs, rs, ops>>

\* A marker put that ends by deleting the objects this sync did not put.
SyncMarkerPruning(ok) ==
  /\ sy.pc = "marker"
  /\ IF ok
     THEN /\ store' = (MarkerKey :> Utf8Encode(ToISOString(now)))
                        @@ [k \in DOMAIN store \cap sy.puts |-> store[k]]
          /\ sy' = [SyncReturn([NoOutcome EXCEPT !.kind = "success",
                                                  !.lastSync = ToISOString(now)])
                     EXCEPT !.markerPuts = @ + 1]
     ELSE /\ sy' = SyncReturn(Failure("Sync error"))
          /\ UNCHANGED store
  /\ Settles(ok)
  /\ UNCHANGED <<now, ticks, workerVars, processVars, bucketBound, pageLimit, df, fs, rs, ops>>

\* Lines 140-151: the put of the marker settles.
SyncMarker(ok) ==
  /\ sy.pc = "marker"
  /\ IF ok
     THEN /\ store' = (MarkerKey :> Utf8Encode(ToISOString(now))) @@ store
          /\ sy' = [SyncReturn([NoOutcome EXCEPT !.kind = "success",
                                                  !.lastSync = ToISOString(now)])
                     EXCEPT !.markerPuts = @ + 1]
     ELSE /\ sy' = SyncReturn(Failure("Sync error"))
          /\ UNCHANGED store
  /\ Settles(ok)
  /\ UNCHANGED <<now, ticks, workerVars, processVars, bucketBound, pageLimit, df, fs, rs, ops>>

\* ------------------------------------------------------------------------
\* restoreFromR2
\* ------------------------------------------------------------------------
\* restoreFromR2 returns: its locals are gone; the transfers it began and
\* the record of its calls stay.
RestoreReturn(r, outcome) ==
  [RestoreIdle EXCEPT !.chains = r.chains, !.emptyTarget = r.emptyTarget,
                      !.lists = r.lists, !.markerGets = r.markerGets,
                      !.mkdirs = r.mkdirs, !.fetched = r.fetched, !.written = r.written,
                      !.outcome = outcome]

\* Lines 220-229: the next batch of `immediate` is mapped; every transfer
\* of it issues its mkdir.  The transfers that have settled are dropped
\* from the record.
LaunchBatch(r) ==
  LET n == IF Len(r.immediate) < BATCH_SIZE THEN Len(r.immediate) ELSE BATCH_SIZE
      keys == {r.immediate[i] : i \in 1..n}
  IN [r EXCEPT !.pc = "batch",
               !.immediate = SubSeq(r.immediate, n + 1, Len(r.immediate)),
               !.chains = [k \in keys |-> [pc |-> "mkdir",
                                           target |-> TargetFile(restoreSteps[r.step], k)]]
                          @@ [k \in Transferring(r.chains) |-> r.chains[k]],
               !.mkdirs = @ \cup keys]

\* A loop that leaves a prefix after its first page.
RestoreProceedFirstPageOnly(r) ==
  IF r.immediate # <<>> THEN LaunchBatch(r)
  ELSE IF r.step < 3
       THEN [r EXCEPT !.pc = "list", !.step = @ + 1, !.cursor = 0, !.lists = @ + 1]
       ELSE RestoreReturn(r, [NoOutcome EXCEPT !.kind = "success", !.lastSync = r.lastSync,
                                                !.deferredKeys = r.deferredKeys])

\* Lines 220-252 between two awaits, no transfer of the invocation
\* pending: the next batch, or the next page, or the next step, or the
\* return of the result.
RestoreProceed(r) ==
  IF r.immediate # <<>> THEN LaunchBatch(r)
  ELSE IF r.truncated THEN [r EXCEPT !.pc = "list", !.lists = @ + 1]
  ELSE IF r.step < 3
       THEN [r EXCEPT !.pc = "list", !.step = @ + 1, !.cursor = 0, !.lists = @ + 1]
       ELSE RestoreReturn(r, [NoOutcome EXCEPT !.kind = "success", !.lastSync = r.lastSync,
                                                !.deferredKeys = r.deferredKeys])

\* Lines 164-174: restoreFromR2 is called; without a bucket it returns at
\* once, otherwise it fetches the marker.
RestoreCall ==
  /\ EngineQuiet
  /\ ops < MaxOps
  /\ ops' = ops + 1
  /\ rs' = IF BucketMissing
           THEN [RestoreIdle EXCEPT !.outcome = Failure("R2 storage is not configured")]
           ELSE [RestoreIdle EXCEPT !.pc = "marker", !.markerGets = 1,
                                    !.emptyTarget = (fs = << >>)]
  /\ UNCHANGED <<now, ticks, workerVars, processVars, bucketBound, pageLimit, df, fs, store, sy, faults>>

\* The probe answering with an object whatever the bucket holds.
LastSyncObjAlways == [present |-> TRUE, text |-> <<>>]

\* Lines 174-179: what bucket.get('.last-sync') resolves to, null or an
\* object with its text.
LastSyncObj ==
  IF MarkerKey \in DOMAIN store
  THEN [present |-> TRUE, text |-> Utf8Decode(store[MarkerKey])]
  ELSE [present |-> FALSE, text |-> <<>>]

\* Lines 174-198: the get of the marker settles.  It is awaited outside
\* the try block: its rejection rejects restoreFromR2.
RestoreMarker(ok) ==
  /\ rs.pc = "marker"
  /\ rs' = IF ~ok THEN RestoreReturn(rs, Thrown)
           ELSE IF ~LastSyncObj.present
                THEN RestoreReturn(rs, [NoOutcome EXCEPT !.kind = "success",
                                                         !.details = "No backup found"])
                ELSE [rs EXCEPT !.pc = "list", !.step = 1, !.cursor = 0, !.lists = 1,
                                !.lastSync = LastSyncObj.text]
  /\ Settles(ok)
  /\ UNCHANGED <<now, ticks, workerVars, processVars, bucketBound, pageLimit, df, fs, store, sy, ops>>

\* Lines 198-229 and 242-259: bucket.list settles; the page is split and
\* the first batch begun.
RestoreList(ok) ==
  /\ rs.pc = "list"
  /\ rs' = IF ~ok THEN RestoreReturn(rs, Failure("Restore error"))
           ELSE LET prefix == restoreSteps[rs.step].r2Prefix
                    page == BucketList(prefix, rs.cursor)
                IN RestoreProceed([rs EXCEPT !.cursor = page.cursor,
                                             !.truncated = page.truncated,
                                             !.immediate = Immediate(page.objects, prefix),
                                             !.deferredKeys = @ \o Deferred(page.objects, prefix)])
  /\ Settles(ok)
  /\ UNCHANGED <<now, ticks, workerVars, processVars, bucketBound, pageLimit, df, fs, store, sy, ops>>

\* A call of the transfer of key k rejects: Promise.all rejects and the
\* catch clause of line 253 returns the failure, if the invocation has not
\* returned yet.  The other transfers of the batch go on.
ChainRejects(k) ==
  LET r == [rs EXCEPT !.chains[k].pc = "failed"]
  IN IF rs.pc = "batch" THEN RestoreReturn(r, Failure("Restore error")) ELSE r

\* Lines 229-232: the mkdir of a transfer settles; the get is issued.
ChainMkdir(k, ok) ==
  /\ k \in DOMAIN rs.chains
  /\ rs.chains[k].pc = "mkdir"
  /\ rs' = IF ok THEN [rs EXCEPT !.chains[k].pc = "get", !.fetched = @ \cup {k}]
           ELSE ChainRejects(k)
  /\ Settles(ok)
  /\ UNCHANGED <<now, ticks, workerVars, processVars, bucketBound, pageLimit, df, fs, store, sy, ops>>

\* Lines 232-236: the get of a transfer and the text() of its body settle;
\* writeFile is issued.
ChainGet(k, ok) ==
  /\ k \in DOMAIN rs.chains
  /\ rs.chains[k].pc = "get"
  /\ rs' = IF ok THEN [rs EXCEPT !.chains[k].pc = "write"] ELSE ChainRejects(k)
  /\ Settles(ok)
  /\ UNCHANGED <<now, ticks, workerVars, processVars, bucketBound, pageLimit, df, fs, store, sy, ops>>

\* A loop that goes on as soon as one transfer of the batch is done.
ChainWriteNoBarrier(k, ok) ==
  /\ k \in DOMAIN rs.chains
  /\ rs.chains[k].pc = "write"
  /\ IF ok
     THEN /\ fs' = (rs.chains[k].target :> RestoredBytes(store[k])) @@ fs
          /\ LET r == [rs EXCEPT !.chains[k].pc = "done", !.written = @ \cup {k}]
             IN rs' = IF rs.pc = "batch" THEN RestoreProceed(r) ELSE r
     ELSE /\ rs' = ChainRejects(k)
          /\ UNCHANGED fs
  /\ Settles(ok)
  /\ UNCHANGED <<now, ticks, workerVars, processVars, bucketBound, pageLimit, df, store, sy, ops>>

\* Lines 236-243: the writeFile of a transfer settles.  When it was the
\* last of its batch the loop goes on.
ChainWrite(k, ok) ==
  /\ k \in DOMAIN rs.chains
  /\ rs.chains[k].pc = "write"
  /\ IF ok
     THEN /\ fs' = (rs.chains[k].target :> RestoredBytes(store[k])) @@ fs
          /\ LET r == [rs EXCEPT !.chains[k].pc = "done", !.written = @ \cup {k}]
             IN rs' = IF rs.pc = "batch" /\ \A j \in DOMAIN r.chains : r.chains[j].pc = "done"
                      THEN RestoreProceed(r) ELSE r
     ELSE /\ rs' = ChainRejects(k)
          /\ UNCHANGED fs
  /\ Settles(ok)
  /\ UNCHANGED <<now, ticks, workerVars, processVars, bucketBound, pageLimit, df, store, sy, ops>>

\* ------------------------------------------------------------------------
\* restoreDeferredFiles
\* ------------------------------------------------------------------------
\* Line 315: restoreDeferredFiles returns.
DeferredReturn(d) ==
  [DeferredIdle EXCEPT !.chains = d.chains, !.arg = d.arg, !.batches = d.batches,
                       !.mkdirs = d.mkdirs, !.written = d.written,
                       !.outcome = "returned"]

\* Lines 284-303: the next batch of keys is mapped; a transfer with no
\* target returns at once, every other one issues its mkdir.
LaunchDeferred(d) ==
  LET n == IF Len(d.keys) < DEFERRED_BATCH_SIZE THEN Len(d.keys) ELSE DEFERRED_BATCH_SIZE
      keys == {d.keys[i] : i \in 1..n}
  IN [d EXCEPT !.pc = "batch",
               !.keys = SubSeq(d.keys, n + 1, Len(d.keys)),
               !.batches = @ + 1,
               !.chains = [k \in keys |->
                             IF DeferredTarget(k) = <<>>
                             THEN [pc |-> "skipped", target |-> <<>>]
                             ELSE [pc |-> "mkdir", target |-> DeferredTarget(k)]]
                          @@ [k \in Transferring(d.chains) |-> d.chains[k]],
               !.mkdirs = @ \cup {k \in keys : DeferredTarget(k) # <<>>}]

\* Lines 284-315 between two awaits: Promise.all resolves once every
\* transfer of the batch has settled; then the next batch is begun, or
\* the function returns.
RECURSIVE DeferredProceed(_)
DeferredProceed(d) ==
  IF Transferring(d.chains) # {} THEN d
  ELSE IF d.keys = <<>> THEN DeferredReturn(d)
  ELSE DeferredProceed(LaunchDeferred(d))

\* The arguments of restoreDeferredFiles: up to MaxDeferred keys out of
\* two session files, the key "openclaw/", a key under no prefix, and two
\* more session files.
DeferredOrder ==
  <<KeyOrder[4], KeyOrder[1], MoreKeys[4], KeyOrder[13], MoreKeys[5], MoreKeys[3]>>

RECURSIVE KeysAmong(_, _)
KeysAmong(S, i) ==
  IF i > Len(DeferredOrder) THEN <<>>
  ELSE (IF DeferredOrder[i] \in S THEN <<DeferredOrder[i]>> ELSE <<>>) \o KeysAmong(S, i + 1)

DeferredArgs ==
  {KeysAmong(S, 1) : S \in {T \in SUBSET {DeferredOrder[i] : i \in 1..Len(DeferredOrder)} :
                               Cardinality(T) <= MaxDeferred}}

\* Lines 266-276: restoreDeferredFiles is called; without a bucket or
\* without keys it returns at once.
DeferredCall(keys) ==
  /\ EngineQuiet
  /\ ops < MaxOps
  /\ ops' = ops + 1
  /\ df' = IF BucketMissing \/ keys = <<>>
           THEN [DeferredIdle EXCEPT !.arg = keys, !.outcome = "returned"]
           ELSE DeferredProceed([DeferredIdle EXCEPT !.arg = keys, !.keys = keys])
  /\ UNCHANGED <<now, ticks, workerVars, processVars, bucketBound, pageLimit, fs, store,
                 sy, rs, faults>>

\* A transfer without the try block: its rejection rejects Promise.all
\* and restoreDeferredFiles.
DeferredSkipsRethrowing(k, pc) ==
  IF pc = "failed"
  THEN [DeferredReturn([df EXCEPT !.chains[k].pc = pc]) EXCEPT !.outcome = "thrown"]
  ELSE DeferredProceed([df EXCEPT !.chains[k].pc = pc])

\* Lines 302-311: a call of the transfer of key k settles with a
\* rejection, or the object is missing: the transfer is over, and the
\* catch clause keeps Promise.all from rejecting.
DeferredSkips(k, pc) == DeferredProceed([df EXCEPT !.chains[k].pc = pc])

\* Lines 303-304: the mkdir of a transfer settles; the get is issued.
DeferredMkdir(k, ok) ==
  /\ k \in DOMAIN df.chains
  /\ df.chains[k].pc = "mkdir"
  /\ df' = IF ok THEN [df EXCEPT !.chains[k].pc = "get"] ELSE DeferredSkips(k, "failed")
  /\ Settles(ok)
  /\ UNCHANGED <<now, ticks, workerVars, processVars, bucketBound, pageLimit, fs, store,
                 sy, rs, ops>>

\* Lines 304-307: the get of a transfer and the text() of its body settle;
\* writeFile is issued unless the bucket has no such object.
DeferredGet(k, ok) ==
  /\ k \in DOMAIN df.chains
  /\ df.chains[k].pc = "get"
  /\ df' = IF ~ok THEN DeferredSkips(k, "failed")
           ELSE IF k \notin DOMAIN store THEN DeferredSkips(k, "missing")
           ELSE [df EXCEPT !.chains[k].pc = "write"]
  /\ Settles(ok)
  /\ UNCHANGED <<now, ticks, workerVars, processVars, bucketBound, pageLimit, fs, store,
                 sy, rs, ops>>

\* Lines 307-308: the writeFile of a transfer settles.
DeferredWrite(k, ok) ==
  /\ k \in DOMAIN df.chains
  /\ df.chains[k].pc = "write"
  /\ IF ok
     THEN /\ fs' = (df.chains[k].target :> RestoredBytes(store[k])) @@ fs
          /\ df' = DeferredProceed([df EXCEPT !.chains[k].pc = "done",
                                              !.written = @ \cup {k}])
     ELSE /\ df' = DeferredSkips(k, "failed")
          /\ UNCHANGED fs
  /\ Settles(ok)
  /\ UNCHANGED <<now, ticks, workerVars, processVars, bucketBound, pageLimit, store,
                 sy, rs, ops>>

\* The sandbox is replaced by a new, empty one.
SandboxRestart ==
  /\ EngineQuiet
  /\ fs # << >>
  /\ fs' = << >>
  /\ UNCHANGED <<now, ticks, workerVars, processVars, bucketBound, pageLimit, df, store, sy, rs, ops, faults>>

\* Time passes between two invocations of the engine.
Elapse(d) ==
  /\ EngineQuiet
  /\ ticks < MaxTicks
  /\ ticks' = ticks + 1
  /\ now' = now + d
  /\ UNCHANGED <<workerVars, processVars, syncVars>>

\* ------------------------------------------------------------------------
\* The sync engine alone
\* ------------------------------------------------------------------------
SmallSubsets(S) == {T \in SUBSET S : Cardinality(T) <= MaxFiles}

\* Workspace objects that bucket.list reports on two pages: a plain file,
\* an excluded one, a binary one and, with longer pages, a session file
\* and others.
PagedKeys ==
  LET order == <<5, 6, 8, 13, 10, 12>>
  IN {KeyOrder[order[i]] : i \in 1..(PageLimit + 1)}

\* The marker of a backup made before the sandbox booted.
OldMarker == MarkerKey :> Utf8Encode(ToISOString(PROCESS_LIST_STALE_MS))

\* The engine before its first invocation.
EngineLoaded ==
  /\ ProcessIdle(<<>>)
  /\ listCalls = 0
  /\ WorkerIdle
  /\ bucketBound \in BOOLEAN
  /\ pageLimit = PageLimit
  /\ sy = SyncIdle
  /\ rs = RestoreIdle
  /\ df = DeferredIdle
  /\ ops = 0
  /\ faults = 0

\* A sandbox with some files and an empty bucket.
InitUpload ==
  /\ EngineLoaded
  /\ store = << >>
  /\ fs \in {FilesWith(S) : S \in SmallSubsets(SourcePaths)} \cup {FilesWith(ExampleFiles)}

\* A new sandbox and a bucket that holds objects of an earlier backup, with
\* its marker or without.
InitRestore ==
  /\ EngineLoaded
  /\ fs = << >>
  /\ store \in {ObjectsWith(K) : K \in SmallSubsets(StoreKeys)}
                 \cup {ObjectsWith(K) @@ OldMarker : K \in SmallSubsets(StoreKeys)}

InitSync == InitUpload \/ InitRestore

NextSync ==
  \/ SyncCall
  \/ \E ok \in BOOLEAN : SyncExistsNew(ok)
  \/ \E ok \in BOOLEAN : SyncExistsLegacy(ok)
  \/ \E ok \in BOOLEAN : SyncList(ok)
  \/ \E outcome \in {"ok", "unsuccessful", "throws"} : SyncRead(outcome)
  \/ \E ok \in BOOLEAN : SyncPut(ok)
  \/ \E ok \in BOOLEAN : SyncMarker(ok)
  \/ RestoreCall
  \/ \E ok \in BOOLEAN : RestoreMarker(ok)
  \/ \E ok \in BOOLEAN : RestoreList(ok)
  \/ \E k \in StoreKeys, ok \in BOOLEAN : ChainMkdir(k, ok)
  \/ \E k \in StoreKeys, ok \in BOOLEAN : ChainGet(k, ok)
  \/ \E k \in StoreKeys, ok \in BOOLEAN : ChainWrite(k, ok)
  \/ SandboxRestart
  \/ \E d \in TickSteps : Elapse(d)

SpecSync == InitSync /\ [][NextSync]_vars

\* Objects of an earlier backup whose source files are no longer in the
\* sandbox: a legacy config file, a session transcript, a workspace file
\* and a binary one.
StaleKeys == {KeyOrder[3], KeyOrder[4], KeyOrder[5], KeyOrder[8]}

\* A sandbox with a config file and a bucket that holds an earlier backup
\* with objects whose source files have since been deleted.
InitStale ==
  /\ EngineLoaded
  /\ fs \in {FilesWith({NewConfigFile}), FilesWith({NewConfigFile, PathOrder[8]}),
              FilesWith({LegacyConfigFile, PathOrder[4]})}
  /\ store \in {ObjectsWith(K) @@ OldMarker : K \in SmallSubsets(StaleKeys) \ {{}}}

SpecStale == InitStale /\ [][NextSync]_vars

\* syncToR2 alone
NextUpload ==
  \/ SyncCall
  \/ \E ok \in BOOLEAN : SyncExistsNew(ok)
  \/ \E ok \in BOOLEAN : SyncExistsLegacy(ok)
  \/ \E ok \in BOOLEAN : SyncList(ok)
  \/ \E outcome \in {"ok", "unsuccessful", "throws"} : SyncRead(outcome)
  \/ \E ok \in BOOLEAN : SyncPut(ok)
  \/ \E ok \in BOOLEAN : SyncMarker(ok)
  \/ \E d \in TickSteps : Elapse(d)

SpecUpload == InitUpload /\ [][NextUpload]_vars

\* restoreFromR2 alone
NextRestore ==
  \/ RestoreCall
  \/ \E ok \in BOOLEAN : RestoreMarker(ok)
  \/ \E ok \in BOOLEAN : RestoreList(ok)
  \/ \E k \in StoreKeys, ok \in BOOLEAN : ChainMkdir(k, ok)
  \/ \E k \in StoreKeys, ok \in BOOLEAN : ChainGet(k, ok)
  \/ \E k \in StoreKeys, ok \in BOOLEAN : ChainWrite(k, ok)

SpecRestore == InitRestore /\ [][NextRestore]_vars

\* Every call that restoreFromR2 or one of its transfers awaits settles.
RestoreSettles ==
  \/ \E ok \in BOOLEAN : RestoreMarker(ok)
  \/ \E ok \in BOOLEAN : RestoreList(ok)
  \/ \E k \in StoreKeys, ok \in BOOLEAN : ChainMkdir(k, ok)
  \/ \E k \in StoreKeys, ok \in BOOLEAN : ChainGet(k, ok)
  \/ \E k \in StoreKeys, ok \in BOOLEAN : ChainWrite(k, ok)

\* A new sandbox and a bucket that holds a backup whose workspace prefix
\* is listed on two pages, alone or with a config file and a skill.
InitPaged ==
  /\ EngineLoaded
  /\ fs = << >>
  /\ store \in {ObjectsWith(PagedKeys \cup K) @@ OldMarker :
                   K \in {{}, {KeyOrder[2], KeyOrder[14]}}}

SpecPaged == InitPaged /\ [][NextRestore]_vars /\ WF_vars(RestoreSettles)

\* The objects of a backup with six plain workspace files and three
\* session files.
BatchKeys ==
  {KeyOrder[5], KeyOrder[8], KeyOrder[10], KeyOrder[12], MoreKeys[1], MoreKeys[2],
   KeyOrder[4], KeyOrder[13], MoreKeys[5]}

\* A new sandbox and a bucket that holds such a backup and lists it on
\* short pages or on pages that hold a whole prefix; one invocation of
\* the engine is left.
InitBatch ==
  /\ ProcessIdle(<<>>)
  /\ listCalls = 0
  /\ WorkerIdle
  /\ bucketBound = TRUE
  /\ pageLimit \in {PageLimit, FullPage}
  /\ fs = << >>
  /\ store = ObjectsWith(BatchKeys) @@ OldMarker
  /\ sy = SyncIdle
  /\ rs = RestoreIdle
  /\ df = DeferredIdle
  /\ ops = MaxOps - 1
  /\ faults = 0

\* restoreFromR2 and restoreDeferredFiles
NextBatch ==
  \/ RestoreCall
  \/ \E ok \in BOOLEAN : RestoreMarker(ok)
  \/ \E ok \in BOOLEAN : RestoreList(ok)
  \/ \E k \in AllKeys, ok \in BOOLEAN : ChainMkdir(k, ok)
  \/ \E k \in AllKeys, ok \in BOOLEAN : ChainGet(k, ok)
  \/ \E k \in AllKeys, ok \in BOOLEAN : ChainWrite(k, ok)
  \/ \E keys \in DeferredArgs : DeferredCall(keys)
  \/ \E k \in AllKeys, ok \in BOOLEAN : DeferredMkdir(k, ok)
  \/ \E k \in AllKeys, ok \in BOOLEAN : DeferredGet(k, ok)
  \/ \E k \in AllKeys, ok \in BOOLEAN : DeferredWrite(k, ok)

SpecBatch == InitBatch /\ [][NextBatch]_vars

\* syncToR2 and restoreFromR2 on one sandbox, with no time passing
NextEngine ==
  \/ SyncCall
  \/ \E ok \in BOOLEAN : SyncExistsNew(ok)
  \/ \E ok \in BOOLEAN : SyncExistsLegacy(ok)
  \/ \E ok \in BOOLEAN : SyncList(ok)
  \/ \E outcome \in {"ok", "unsuccessful", "throws"} : SyncRead(outcome)
  \/ \E ok \in BOOLEAN : SyncPut(ok)
  \/ \E ok \in BOOLEAN : SyncMarker(ok)
  \/ RestoreCall
  \/ \E ok \in BOOLEAN : RestoreMarker(ok)
  \/ \E ok \in BOOLEAN : RestoreList(ok)
  \/ \E k \in StoreKeys, ok \in BOOLEAN : ChainMkdir(k, ok)
  \/ \E k \in StoreKeys, ok \in BOOLEAN : ChainGet(k, ok)
  \/ \E k \in StoreKeys, ok \in BOOLEAN : ChainWrite(k, ok)

SpecEngine == InitSync /\ [][NextEngine]_vars

\* ------------------------------------------------------------------------
\* The catch-all proxy, app.all('*')
\* ------------------------------------------------------------------------
\* What findExistingMoltbotProcess resolves to: null, or a process that is
\* starting or running.
Found == {"null", "starting", "running"}

\* Line 396
IsGatewayReady(found) == found = "running"

\* Line 405: the loading page is served and the gateway started in the
\* background.
ServesLoadingPage(q, found) ==
  /\ ~IsGatewayReady(found)
  /\ ~q.isWebSocketRequest
  /\ q.acceptsHtml
  /\ ~q.isReadyRedirect

\* Every rejection taken for a resolution.
CaughtNever(ok) == FALSE

\* Lines 420-422: the awaited ensureMoltbotGateway rejects and the catch
\* clause is entered.
Caught(ok) == ~ok

\* Lines 433-440
GatewayFailedResponse == [status |-> 503, body |-> "Moltbot gateway failed to start"]

\* Line 416
LoadingPageResponse == [status |-> 200, body |-> "loading page"]

\* Lines 615, 620, 627
InvalidSignatureResponse == [status |-> 401, body |-> "Invalid signature"]

\* Lines 387-395: a request reaches the handler, which calls
\* findExistingMoltbotProcess.
ProxyRequest(r, ws, html, ready, hook) ==
  /\ reqs[r].pc = "none"
  /\ ~(ws /\ hook)
  /\ reqs' = [reqs EXCEPT ![r] = [NoRequest EXCEPT !.pc = "findExisting",
                                                   !.isWebSocketRequest = ws,
                                                   !.acceptsHtml = html,
                                                   !.isReadyRedirect = ready,
                                                   !.isBlooioInbound = hook]]
  /\ UNCHANGED <<now, ticks, processVars, syncVars, hs>>

\* Lines 395-421: findExistingMoltbotProcess resolves.  Either the loading
\* page is returned and ensureMoltbotGateway left running in the
\* background, or ensureMoltbotGateway is awaited.
ProxyFindSettles(r, found) ==
  /\ reqs[r].pc = "findExisting"
  /\ reqs' = [reqs EXCEPT ![r] =
                IF ServesLoadingPage(@, found)
                THEN [@ EXCEPT !.pc = "answered", !.background = "pending",
                               !.response = LoadingPageResponse]
                ELSE [@ EXCEPT !.pc = "ensure", !.ensured = "pending"]]
  /\ UNCHANGED <<now, ticks, processVars, syncVars, hs>>

\* Lines 409-413: the background ensureMoltbotGateway settles; its error
\* is logged.
ProxyBackgroundSettles(r, ok) ==
  /\ reqs[r].background = "pending"
  /\ reqs' = [reqs EXCEPT ![r].background = IF ok THEN "started" ELSE "threw"]
  /\ UNCHANGED <<now, ticks, processVars, syncVars, hs>>

\* Lines 420-464 and 596-636: the awaited ensureMoltbotGateway settles.
\* On an error the 503 response is returned; otherwise a WebSocket request
\* is connected to the container, and an HTTP request is fetched from it
\* unless it is a Bloo.io webhook whose signature does not verify.
ProxyEnsureSettles(r, ok, signatureOk) ==
  /\ reqs[r].pc = "ensure"
  /\ reqs' = [reqs EXCEPT ![r] =
                IF Caught(ok)
                THEN [@ EXCEPT !.pc = "answered", !.ensured = "threw",
                               !.response = GatewayFailedResponse]
                ELSE IF @.isWebSocketRequest
                THEN [@ EXCEPT !.pc = "wsConnect", !.ensured = IF ok THEN "ready" ELSE "threw",
                               !.wsConnects = @ + 1]
                ELSE IF @.isBlooioInbound /\ ~signatureOk
                THEN [@ EXCEPT !.pc = "answered", !.ensured = IF ok THEN "ready" ELSE "threw",
                               !.response = InvalidSignatureResponse]
                ELSE [@ EXCEPT !.pc = "containerFetch",
                               !.ensured = IF ok THEN "ready" ELSE "threw",
                               !.containerFetches = @ + 1]]
  /\ UNCHANGED <<now, ticks, processVars, syncVars, hs>>

\* Lines 464-471, 590-593 and 636-648: the call to the container settles.
\* Its response is passed on; its rejection leaves the handler, which the
\* framework answers with status 500.
ProxyForwardSettles(r, ok) ==
  /\ reqs[r].pc \in {"wsConnect", "containerFetch"}
  /\ reqs' = [reqs EXCEPT ![r].pc = "answered",
                          ![r].response =
                            IF ~ok THEN [status |-> 500, body |-> "Internal Server Error"]
                            ELSE IF reqs[r].isWebSocketRequest
                                 THEN [status |-> 101, body |-> "container"]
                                 ELSE [status |-> 200, body |-> "container"]]
  /\ UNCHANGED <<now, ticks, processVars, syncVars, hs>>

NextProxy ==
  \/ \E r \in Requests, ws, html, ready, hook \in BOOLEAN : ProxyRequest(r, ws, html, ready, hook)
  \/ \E r \in Requests, found \in Found : ProxyFindSettles(r, found)
  \/ \E r \in Requests, ok \in BOOLEAN : ProxyBackgroundSettles(r, ok)
  \/ \E r \in Requests, ok, signatureOk \in BOOLEAN : ProxyEnsureSettles(r, ok, signatureOk)
  \/ \E r \in Requests, ok \in BOOLEAN : ProxyForwardSettles(r, ok)

InitProxy == InitWith(<<>>)

SpecProxy == InitProxy /\ [][NextProxy]_vars

\* ------------------------------------------------------------------------
\* The Bloo.io webhook in the catch-all proxy (part_000 lines 602-636)
\* ------------------------------------------------------------------------

\* Lines 75-88: the HMAC-SHA256 of a message under a secret, written as the
\* pair it is a function of: different pairs have different codes.
hmacSha256(secret, message) == <<secret, message>>

\* Line 617: `${timestampSec}.${rawText}`
SignedMessage(timestampSec, rawText) == <<timestampSec, rawText>>

\* Lines 93-103.  A header is written by the parts it holds: whether it is
\* there at all, whether it has a t= part and a v1= part, and their
\* values.  null and the falsy values 0 and "" are tested alike by the
\* caller (line 613) and are written 0 and <<>>.
parseBlooioSignature(header) ==
  IF ~header.tPart \/ ~header.v1Part
  THEN [timestampSec |-> 0, hmacHex |-> <<>>]
  ELSE [timestampSec |-> header.t, hmacHex |-> header.v1]

\* Line 623
Abs(n) == IF n < 0 THEN -n ELSE n

\* Line 611
SIGNATURE_MAX_AGE_SEC == 300

\* Lines 607-630: what the handler does with a POST to /blooio/inbound at
\* the second nowSec: "forward" when it goes on to enrichBlooioPayload and
\* containerFetch, otherwise the error of its 401 response.
BlooioVerdict(q, nowSec) ==
  IF ~(q.webhookSecret # "" /\ q.signature.present)
  THEN "forward"
  ELSE LET parsed == parseBlooioSignature(q.signature)
           expected == hmacSha256(q.webhookSecret,
                                  SignedMessage(parsed.timestampSec, q.rawText))
       IN  IF parsed.timestampSec = 0 \/ parsed.hmacHex = <<>> THEN "Invalid signature"
           ELSE IF expected # parsed.hmacHex THEN "Invalid signature"
           ELSE IF Abs(nowSec - parsed.timestampSec) > SIGNATURE_MAX_AGE_SEC
                THEN "Stale signature"
                ELSE "forward"

\* Line 623: Math.floor(Date.now() / 1000)
NowSec == now \div 1000

\* The webhook secrets of the deployment: unset, or set.
WebhookSecrets == {"", "s3cret"}

\* The body of the webhooks received.
RawText == "{\"text\":\"hi\"}"

\* The timestamps the senders put in the header: none, the current second,
\* and the seconds at and past the age limit.
SenderTimestamps ==
  {0, BootTime \div 1000, BootTime \div 1000 + SIGNATURE_MAX_AGE_SEC,
   BootTime \div 1000 + SIGNATURE_MAX_AGE_SEC + 1}

\* The codes the senders put next to timestamp t: none, the code of
\* the body under the deployment's secret, under another secret, of
\* another body, and of the body with another timestamp.
SenderCodes(t) ==
  {<<>>,
   hmacSha256("s3cret", SignedMessage(t, RawText)),
   hmacSha256("guess", SignedMessage(t, RawText)),
   hmacSha256("s3cret", SignedMessage(t, "{\"text\":\"pay\"}")),
   hmacSha256("s3cret", SignedMessage(BootTime \div 1000, RawText))}

\* The signature headers received: none, one without its t= part, one
\* without its v1= part, and every pair of a timestamp and a code.
SenderHeaders ==
  {[present |-> FALSE, tPart |-> FALSE, t |-> 0, v1Part |-> FALSE, v1 |-> <<>>],
   [present |-> TRUE, tPart |-> FALSE, t |-> 0, v1Part |-> TRUE,
    v1 |-> hmacSha256("s3cret", SignedMessage(0, RawText))],
   [present |-> TRUE, tPart |-> TRUE, t |-> BootTime \div 1000, v1Part |-> FALSE, v1 |-> <<>>]}
  \cup {[present |-> TRUE, tPart |-> TRUE, t |-> t, v1Part |-> TRUE, v1 |-> v] :
          <<t, v>> \in {<<t, v>> \in SenderTimestamps \X UNION {SenderCodes(u) : u \in SenderTimestamps} :
                         v \in SenderCodes(t)}}

\* Lines 387-395: a POST to /blooio/inbound reaches the handler of a
\* deployment with the given secret, carrying the given signature header.
BlooioRequest(r, secret, header) ==
  /\ reqs[r].pc = "none"
  /\ reqs' = [reqs EXCEPT ![r] = [NoRequest EXCEPT !.pc = "findExisting",
                                                   !.isBlooioInbound = TRUE,
                                                   !.webhookSecret = secret,
                                                   !.rawText = RawText,
                                                   !.signature = header]]
  /\ UNCHANGED <<now, ticks, processVars, syncVars, hs>>

\* Lines 420-464 and 596-636 for a webhook: the awaited
\* ensureMoltbotGateway settles and the signature is verified.
BlooioEnsureSettles(r, ok) ==
  /\ reqs[r].isBlooioInbound
  /\ ProxyEnsureSettles(r, ok, BlooioVerdict(reqs[r], NowSec) = "forward")

NextBlooio ==
  \/ \E r \in Requests, secret \in WebhookSecrets, header \in SenderHeaders :
       BlooioRequest(r, secret, header)
  \/ \E r \in Requests, found \in Found : ProxyFindSettles(r, found)
  \/ \E r \in Requests, ok \in BOOLEAN : BlooioEnsureSettles(r, ok)
  \/ \E r \in Requests, ok \in BOOLEAN : ProxyForwardSettles(r, ok)

SpecBlooio == InitProxy /\ [][NextBlooio]_vars

\* ------------------------------------------------------------------------
\* listProcessesCached alone, with time passing while a listing is pending
\* ------------------------------------------------------------------------
\* The clock advances while no continuation is ready to run.
ListTick(d) ==
  /\ Quiescent
  /\ ticks < MaxListTicks
  /\ ticks' = ticks + 1
  /\ now' = now + d
  /\ UNCHANGED <<workerVars, syncVars, listCalls, sandboxVars, cacheVars, startVars, inv, result,
                 calls, batch>>

NextList ==
  \/ \E c \in Callers : Call(c, "find")
  \/ ListRead
  \/ ListResolve
  \/ ListReject
  \/ \E c \in Callers : ClassifySnapshot(c)
  \/ \E c \in Callers : ListFailed(c)
  \/ \E c \in Callers, ok \in BOOLEAN : KillZombie(c, ok)
  \/ \E d \in TickSteps : ListTick(d)

SpecList == Init /\ [][NextList]_vars

\* ------------------------------------------------------------------------
\* The status route, GET /api/status
\* ------------------------------------------------------------------------
\* The test of line 279 made without the age of the error.
RecentListErrorOfAnyAge == getProcessListHealth.lastError

\* Line 279: lastError && Date.now() - lastErrorAt < 15000
RecentListError ==
  /\ getProcessListHealth.lastError
  /\ now - getProcessListHealth.lastErrorAt < 15000

\* Lines 272-276: a request reaches the route, which calls
\* findExistingMoltbotProcess.
StatusRequest(c) ==
  /\ inv[c].pc = "idle"
  /\ hs[c].pc = "none"
  /\ hs' = [hs EXCEPT ![c] = [NoHandler EXCEPT !.kind = "status", !.pc = "find"]]
  /\ Begin(c, "find")
  /\ UNCHANGED <<reqs, calls>>

\* Lines 276-294 and 302-308: findExistingMoltbotProcess settles.  With no
\* process the route answers "busy", or it calls ensureMoltbotGateway
\* without awaiting it and answers "starting"; with a process it waits for
\* the port; a rejection is answered "error".
StatusFindSettles(c) ==
  /\ hs[c].kind = "status"
  /\ hs[c].pc = "find"
  /\ Resumes(c)
  /\ IF result[c].kind = "null" /\ ~RecentListError
     THEN /\ hs' = [hs EXCEPT ![c].pc = "done", ![c].response = "starting",
                              ![c].triggered = TRUE]
          /\ Begin(c, "ensure")
          /\ UNCHANGED <<reqs, calls>>
     ELSE /\ hs' = [hs EXCEPT ![c] =
                      IF result[c].kind = "null"
                      THEN [@ EXCEPT !.pc = "done", !.response = "busy"]
                      ELSE IF result[c].kind = "found"
                      THEN [@ EXCEPT !.pc = "port", !.process = result[c].proc]
                      ELSE [@ EXCEPT !.pc = "done", !.response = "error"]]
          /\ UNCHANGED <<now, ticks, reqs, processVars, syncVars>>

\* Lines 296-301: waitForPort settles, within its 5 s or by its timeout.
StatusPortSettles(c, ok) ==
  /\ Quiescent
  /\ hs[c].kind = "status"
  /\ hs[c].pc = "port"
  /\ ok => IsLive(procs[hs[c].process].status)
  /\ hs' = [hs EXCEPT ![c].pc = "done",
                      ![c].response = IF ok THEN "running" ELSE "not_responding"]
  /\ UNCHANGED <<now, ticks, reqs, processVars, syncVars>>

\* The status route over the process directory, with time passing; the
\* start attempt of a triggered ensureMoltbotGateway stays pending.
NextStatus ==
  \/ \E c \in Callers : StatusRequest(c)
  \/ \E c \in Callers : StatusFindSettles(c)
  \/ \E c \in Callers, ok \in BOOLEAN : StatusPortSettles(c, ok)
  \/ ListRead
  \/ ListResolve
  \/ ListReject
  \/ \E c \in Callers : ClassifySnapshot(c)
  \/ \E c \in Callers : ListFailed(c)
  \/ \E c \in Callers, ok \in BOOLEAN : KillZombie(c, ok)
  \/ \E d \in TickSteps : ListTick(d)

SpecStatus == Init /\ [][NextStatus]_vars

\* ------------------------------------------------------------------------
\* The scheduled handler
\* ------------------------------------------------------------------------
\* Lines 660-664: the cron trigger fires; the handler calls
\* findExistingMoltbotProcess.
CronCall(c) ==
  /\ inv[c].pc = "idle"
  /\ hs[c].pc = "none"
  /\ Cardinality({d \in Callers : hs[d].kind = "cron"}) < MaxCronRuns
  /\ hs' = [hs EXCEPT ![c] = [NoHandler EXCEPT !.kind = "cron", !.pc = "find"]]
  /\ Begin(c, "find")
  /\ UNCHANGED <<reqs, calls>>

\* Lines 664-667 and 675-676: the first findExistingMoltbotProcess
\* settles.  With a process the handler calls syncToR2, without one
\* ensureMoltbotGateway; a rejection ends it in the catch clause.
CronFindSettles(c) ==
  /\ hs[c].kind = "cron"
  /\ hs[c].pc = "find"
  /\ Resumes(c)
  /\ IF result[c].kind = "null"
     THEN /\ hs' = [hs EXCEPT ![c].pc = "ensure"]
          /\ Begin(c, "ensure")
          /\ UNCHANGED <<reqs, calls>>
     ELSE /\ hs' = [hs EXCEPT ![c] =
                      IF result[c].kind = "found"
                      THEN [@ EXCEPT !.pc = "sync", !.process = result[c].proc,
                                     !.synced = TRUE]
                      ELSE [@ EXCEPT !.pc = "done", !.outcome = "returned"]]
          /\ UNCHANGED <<now, ticks, reqs, processVars, syncVars>>

\* Lines 667-668 and 683-685: the awaited ensureMoltbotGateway settles.
\* When it resolved the handler calls findExistingMoltbotProcess again;
\* its rejection ends the handler in the catch clause.
CronEnsureSettles(c) ==
  /\ hs[c].kind = "cron"
  /\ hs[c].pc = "ensure"
  /\ Resumes(c)
  /\ IF result[c].kind = "process"
     THEN /\ hs' = [hs EXCEPT ![c].pc = "findAgain", ![c].ensured = result[c].proc]
          /\ Begin(c, "find")
          /\ UNCHANGED <<reqs, calls>>
     ELSE /\ hs' = [hs EXCEPT ![c].pc = "done", ![c].outcome = "returned"]
          /\ UNCHANGED <<now, ticks, reqs, processVars, syncVars>>

\* Lines 668-676: the second findExistingMoltbotProcess settles.  With a
\* process the handler calls syncToR2; without one it returns.
CronFindAgainSettles(c) ==
  /\ hs[c].kind = "cron"
  /\ hs[c].pc = "findAgain"
  /\ Resumes(c)
  /\ hs' = [hs EXCEPT ![c] =
              IF result[c].kind = "found"
              THEN [@ EXCEPT !.pc = "sync", !.process = result[c].proc, !.synced = TRUE]
              ELSE [@ EXCEPT !.pc = "done", !.outcome = "returned"]]
  /\ UNCHANGED <<now, ticks, reqs, processVars, syncVars>>

\* Lines 676-685: syncToR2 settles with a result, which is logged, or it
\* rejects, which the catch clause logs; the handler returns.
CronSyncSettles(c, settled) ==
  /\ Quiescent
  /\ hs[c].kind = "cron"
  /\ hs[c].pc = "sync"
  /\ hs' = [hs EXCEPT ![c].pc = "done", ![c].outcome = "returned"]
  /\ UNCHANGED <<now, ticks, reqs, processVars, syncVars>>

\* The scheduled handler over the process directory and the start
\* attempts, with time passing.
NextCron ==
  \/ \E c \in Callers : CronCall(c)
  \/ \E c \in Callers : CronFindSettles(c)
  \/ \E c \in Callers : CronEnsureSettles(c)
  \/ \E c \in Callers : CronFindAgainSettles(c)
  \/ \E c \in Callers, settled \in {"success", "failure", "thrown"} : CronSyncSettles(c, settled)
  \/ ListRead
  \/ ListResolve
  \/ ListReject
  \/ \E c \in Callers : ClassifySnapshot(c)
  \/ \E c \in Callers : ListFailed(c)
  \/ \E c \in Callers, ok \in BOOLEAN : KillZombie(c, ok)
  \/ \E c \in Callers : WaitPortOk(c)
  \/ \E c \in Callers : WaitPortFail(c)
  \/ \E c \in Callers, ok \in BOOLEAN : KillExisting(c, ok)
  \/ \E k \in 1..MaxCalls, ok \in BOOLEAN : AttemptProbe(k, ok)
  \/ \E k \in 1..MaxCalls, restored \in BOOLEAN : AttemptRestore(k, restored)
  \/ \E k \in 1..MaxCalls, ok \in BOOLEAN : AttemptStart(k, ok)
  \/ \E k \in 1..MaxCalls : AttemptWaitOk(k)
  \/ \E k \in 1..MaxCalls : AttemptWaitFail(k)
  \/ \E k \in 1..MaxCalls, ok \in BOOLEAN : AttemptLogs(k, ok)
  \/ \E k \in 1..MaxCalls, ok \in BOOLEAN : AttemptKill(k, ok)
  \/ \E k \in 1..MaxCalls, ok \in BOOLEAN : AttemptFailLogs(k, ok)
  \/ \E d \in TickSteps : Tick(d)

SpecCron == Init /\ [][NextCron]_vars

TypeOK ==
  /\ now >= BootTime
  /\ ticks \in 0..(MaxTicks + MaxListTicks)
  /\ startInFlight \in 0..Len(attempts)
  /\ Len(kills) = Len(procs)
  /\ \A c \in Callers : inv[c].pc \in {"idle", "awaitList", "classify", "listFailed",
                                       "killZombie", "waitPort", "killExisting",
                                       "awaitStart"}

\* ------------------------------------------------------------------------
\* Properties
\* ------------------------------------------------------------------------
InFlight == {k \in 1..Len(attempts) : Pending(k)}

\* Caller c takes a step of its own invocation.
Steps(c) == inv'[c] # inv[c] \/ result'[c] # result[c]

\* The clock reads less than the throttle window after the last admitted
\* start attempt.
InsideWindow == now - lastStartAttemptAt < 15000

\* C1: N ensureReady calls made concurrently, while no gateway process
\* exists and the throttle is clear, issue exactly one startProcess call in
\* total: never more than one, and one once all of them have settled.
C1_OneStartPerBatch ==
  batch => /\ StartCalls <= 1
           /\ (calls > 0 /\ \A c \in Callers : inv[c].pc = "idle") => StartCalls = 1

\* C2: a caller that runs concurrently with a start attempt settles with
\* the outcome of that attempt: no caller fails with the throttling error
\* while a start attempt is in flight.
C2_ConcurrentCallersShare ==
  [][\A c \in Callers :
       (Steps(c) /\ result'[c].kind = "throttled") => InFlight = {}]_vars

\* C3: at no time are two start attempts in flight.
C3_OneAttemptInFlight == Cardinality(InFlight) <= 1

\* C6: startProcess is never issued while a gateway process that the
\* supervisor started earlier, or returned as ready, is alive and has not
\* been killed.
C6_NoStartWhileGatewayAlive ==
  [][StartCalls' > StartCalls =>
       \A i \in 1..Len(procs) :
         (\/ \E k \in 1..Len(attempts) : attempts[k].proc = i
          \/ \E c \in Callers : result[c] = ProcessResult(i))
         => ~(IsLive(procs[i].status) /\ kills[i] = 0)]_vars

\* C8: when no gateway process was found and the port of the newly started
\* process becomes reachable, the attempt returns that process and the
\* supervisor does not kill it, whatever getLogs does.
C8_ReachableProcessReturned ==
  \A k \in 1..Len(attempts) :
    (attempts[k].portOk /\ attempts[k].origin = "none") =>
      /\ attempts[k].pc \in {"logs", "settled"}
      /\ attempts[k].pc = "settled" => attempts[k].outcome = "ok"

\* C9: no process is killed more than once.
C9_NoDuplicateKill == \A i \in 1..Len(procs) : kills[i] <= 1

\* Caller c is about to run line 178: its next step ends findExisting with
\* null, or ends the kill of the existing process.
AtStartStep(c) ==
  /\ inv[c].op = "ensure"
  /\ \/ /\ inv[c].pc = "classify"
        /\ \A i \in 1..Len(inv[c].processes) :
             /\ ~IsGatewayProcess(inv[c].processes[i].command)
             /\ ~IsCliCommand(inv[c].processes[i].command)
     \/ inv[c].pc = "listFailed"
     \/ /\ inv[c].pc = "killZombie"
        /\ Len(inv[c].zombiesToKill) = 1
        /\ inv[c].existingProcess = 0
     \/ inv[c].pc = "killExisting"

\* Any two admitted start attempts are at least a throttle window apart.
Spaced ==
  \A j, k \in 1..Len(attempts) :
    j < k => attempts[k].admittedAt - attempts[j].admittedAt >= 15000

\* C4: a caller that reaches the start step less than 15 s after the last
\* admitted start attempt fails with the throttling error and changes
\* neither the throttle timestamp nor the start slot, and issues no restore
\* and no startProcess; admitted attempts are at least 15 s apart.
C4_Throttle ==
  [][/\ \A c \in Callers :
          (AtStartStep(c) /\ Steps(c) /\ InsideWindow) =>
            /\ result'[c] = ErrorResult("throttled")
            /\ inv'[c] = Idle
            /\ UNCHANGED <<startInFlight, lastStartAttemptAt, attempts, configPresent>>
            /\ Len(procs') = Len(procs)
     /\ Spaced']_vars

\* A caller was throttled by the one attempt admitted so far, which has
\* settled, and the clock has moved on inside the window.
C4_Witness ==
  /\ \E c \in Callers : result[c].kind = "throttled"
  /\ Len(attempts) = 1 /\ ~Pending(1)
  /\ lastStartAttemptAt = attempts[1].admittedAt
  /\ now > lastStartAttemptAt /\ InsideWindow

\* The classification of a snapshot P, stated entry by entry.
LiveGateway(e) ==
  /\ IsGatewayProcess(e.command) /\ ~IsCliCommand(e.command)
  /\ e.status \in {"starting", "running"}

CanonicalOf(P) ==
  IF \E i \in 1..Len(P) : LiveGateway(P[i])
  THEN P[CHOOSE i \in 1..Len(P) :
           LiveGateway(P[i]) /\ \A j \in 1..(i - 1) : ~LiveGateway(P[j])].id
  ELSE 0

ToKill(P) ==
  {P[i].id : i \in {j \in 1..Len(P) :
     \/ /\ IsGatewayProcess(P[j].command) /\ ~IsCliCommand(P[j].command)
        /\ P[j].id # CanonicalOf(P)
     \/ /\ IsCliCommand(P[j].command)
        /\ P[j].status \notin {"starting", "running"}}}

SeqRange(q) == {q[i] : i \in 1..Len(q)}

\* C5: findExisting returns the first listed gateway process that is
\* starting or running, and kills exactly the other gateway entries and
\* the CLI entries that are neither starting nor running, each once.
C5_ClassifyAndReap ==
  [][\A c \in Callers :
       LET P == inv[c].processes
           killing == inv[c].pc = "killZombie"
           done == IF killing
                   THEN Append(inv[c].killed, Head(inv[c].zombiesToKill))
                   ELSE <<>>
           g == CanonicalOf(P)
       IN (Steps(c) /\ inv[c].pc \in {"classify", "killZombie"}) =>
            /\ kills' = [i \in DOMAIN kills |->
                           IF killing /\ i = Head(inv[c].zombiesToKill)
                           THEN kills[i] + 1 ELSE kills[i]]
            /\ inv'[c].pc \notin {"classify", "killZombie"} =>
                 /\ SeqRange(done) = ToKill(P)
                 /\ Len(done) = Cardinality(ToKill(P))
                 /\ IF inv[c].op = "find"
                    THEN result'[c] = IF g = 0 THEN NullResult ELSE FoundResult(g)
                    ELSE IF g # 0
                         THEN inv'[c].pc = "waitPort" /\ inv'[c].existingProcess = g
                         ELSE inv'[c].pc \in {"idle", "awaitStart"}]_vars

\* Of a running and a dead gateway entry the running one was returned and
\* the dead one alone was killed.
C5_Witness ==
  /\ Len(procs) = 2
  /\ procs[1].command = GatewayCommand /\ procs[1].status = "running"
  /\ procs[2].command = GatewayCommand /\ procs[2].status = "dead"
  /\ kills = <<0, 1>>
  /\ \E c \in Callers : result[c] = FoundResult(1)

\* C7 as claimed: after the wait on an existing process times out, the
\* caller kills it and attempts exactly one replacement start.
C7_ExactlyOneReplacement ==
  [][\A c \in Callers :
       (inv[c].pc = "killExisting" /\ inv[c].timedOut /\ Steps(c)) =>
         /\ inv'[c].pc = "awaitStart"
         /\ Len(attempts') = Len(attempts) + 1]_vars

\* C7 as amended: after the timeout the caller kills the process and goes
\* to the throttle check.  Inside the window it fails with the throttling
\* error and starts nothing; otherwise it creates one attempt, which issues
\* startProcess once before it settles, and the invocation ends with it.
C7_ReplacementUnlessThrottled ==
  [][/\ \A c \in Callers :
          (inv[c].pc = "killExisting" /\ inv[c].timedOut /\ Steps(c)) =>
            /\ kills'[inv[c].existingProcess] = kills[inv[c].existingProcess] + 1
            /\ IF InsideWindow
               THEN /\ result'[c] = ErrorResult("throttled")
                    /\ inv'[c] = Idle
                    /\ attempts' = attempts
               ELSE /\ Len(attempts') = Len(attempts) + 1
                    /\ attempts'[Len(attempts')].owner = c
                    /\ attempts'[Len(attempts')].origin = "timeout"
                    /\ attempts'[Len(attempts')].pc = "exists"
                    /\ inv'[c].pc = "awaitStart"
                    /\ inv'[c].awaiting = Len(attempts')
     /\ \A k \in 1..Len(attempts) :
          (attempts[k].origin = "timeout" /\ Pending(k)) =>
            /\ inv[attempts[k].owner].pc = "awaitStart"
            /\ inv[attempts[k].owner].awaiting = k
            /\ attempts'[k].pc = "settled" =>
                 /\ attempts[k].pc \in {"start", "logs", "failLogs"}
                 /\ inv'[attempts[k].owner] = Idle
     /\ StartCalls' <= StartCalls + 1]_vars

\* The replacement process has been started by the caller whose wait on
\* the existing process timed out and who killed it.
C7_Witness ==
  \E k \in 1..Len(attempts) :
    /\ attempts[k].origin = "timeout" /\ attempts[k].pc = "wait"
    /\ kills[inv[attempts[k].owner].existingProcess + 1] >= 1

\* C10: the slots are emptied when the promise they hold settles, with a
\* value or with an error: the start slot never holds a settled attempt, a
\* settled listing leaves the list slot empty, and a call made afterwards
\* creates a new listing or attempt instead of settling at once.
C10_SlotsCleared ==
  [][/\ \A k \in 1..Len(attempts) :
          (Pending(k) /\ attempts'[k].pc = "settled") => startInFlight' = 0
     /\ startInFlight' # 0 => attempts'[startInFlight'].pc # "settled"
     /\ (\E c \in Callers : inv[c].pc = "awaitList" /\ inv'[c].pc # "awaitList")
          => ~listInFlight'.pending
     /\ calls' = calls + 1 =>
          /\ \A c \in Callers : result'[c] = result[c] \/ result'[c] = NoResult
          /\ \A c \in Callers :
               (inv'[c].pc = "awaitList" /\ inv[c].pc = "idle" /\ ~listInFlight.pending)
                 => listInFlight' = [NoListing EXCEPT !.pending = TRUE, !.now = now]]_vars

\* After an attempt failed and a listing failed, a later call has created
\* a second attempt, which now holds the slot.
C10_Witness ==
  /\ Len(attempts) = 2
  /\ attempts[1].pc = "settled" /\ attempts[1].outcome # "ok"
  /\ startInFlight = 2 /\ Pending(2)
  /\ lastListError

\* A step in which the pending sandbox.listProcesses() call rejects.
ListingFails == listCalls' < listCalls /\ lastListError'

\* The callers that await the pending listing.
Awaiting == {c \in Callers : inv[c].pc = "awaitList"}

\* C11: when the backend listing fails, refresh returns the cached snapshot
\* if one exists and is younger than the staleness bound (15 s), and the
\* listing error propagates if no snapshot exists or it is older than the
\* bound.
C11_StaleServedWithinBound ==
  [][ListingFails =>
       IF cachedProcesses.present /\ now - cachedAt < 15000
       THEN \A c \in Awaiting : /\ inv'[c].pc = "classify"
                                /\ inv'[c].processes = cachedProcesses.list
       ELSE \A c \in Awaiting : inv'[c].pc = "listFailed"]_vars

\* Caller c begins a refresh in this step.
BeginsRefresh(c) == inv[c].pc = "idle" /\ inv'[c].pc \in {"classify", "awaitList"}

\* C12: at most one backend listProcesses call is outstanding at any time;
\* a refresh served from a snapshot younger than the TTL (3 s) makes no
\* backend call; a caller that arrives while a backend call is outstanding
\* issues none and receives that call's result, as every other caller that
\* awaits it.
C12_OneBackendCall ==
  /\ [](listCalls <= 1)
  /\ [](Awaiting # {} => listCalls = 1)
  /\ [][\A c \in Callers :
          BeginsRefresh(c) =>
            /\ (cachedProcesses.present /\ now - cachedAt < 3000) =>
                 /\ listCalls' = listCalls
                 /\ inv'[c].pc = "classify"
                 /\ inv'[c].processes = cachedProcesses.list
            /\ listCalls = 1 => listCalls' = 1 /\ inv'[c].pc = "awaitList"]_vars
  /\ [][listCalls' < listCalls =>
          /\ \A c \in Awaiting : inv'[c].pc \in {"classify", "listFailed"}
          /\ \A c, d \in Awaiting : /\ inv'[c].pc = inv'[d].pc
                                     /\ inv'[c].processes = inv'[d].processes
          /\ lastListError' = FALSE =>
               \A c \in Awaiting : inv'[c].processes = listInFlight.list]_vars

\* Two callers await one outstanding backend call.
C12_Witness == listCalls = 1 /\ Cardinality(Awaiting) >= 2

\* A step in which syncToR2 returns its result.
SyncReturns == sy' # sy /\ sy'.pc = "idle" /\ sy'.outcome.kind # "none"

\* Neither config marker file is among the given files.
NoConfigFile(files) ==
  NewConfigFile \notin DOMAIN files /\ LegacyConfigFile \notin DOMAIN files

\* C13: sync called when neither the current nor the legacy config marker
\* file exists returns a failure and performs zero store writes: it never
\* gets to list, read or put anything, no file object and no backup marker
\* is put, and the store is as it was.  When both probes answer, the
\* error is "Sync aborted: no config file found".
C13_NoConfigNoWrites ==
  /\ []((sy.pc # "idle" /\ NoConfigFile(sy.source)) =>
          /\ sy.pc \in {"existsNew", "existsLegacy"}
          /\ sy.puts = {} /\ sy.markerPuts = 0)
  /\ [][(SyncReturns /\ NoConfigFile(fs)) =>
          /\ sy'.outcome.kind = "failure"
          /\ sy'.outcome.lastSync = <<>>
          /\ sy'.puts = {} /\ sy'.markerPuts = 0
          /\ store' = store
          /\ (sy.pc = "existsLegacy" /\ faults' = faults) =>
               sy'.outcome.error = "Sync aborted: no config file found"]_vars

\* A sandbox that holds files, none of them a config marker, has been
\* synced and the "no config file found" failure returned.
C13_Witness ==
  /\ sy.pc = "idle"
  /\ sy.outcome = Failure("Sync aborted: no config file found")
  /\ sy.source = fs /\ fs # << >>
  /\ store = << >>

\* C14: whenever sync returns a failure, the previous backup is untouched:
\* that call has written no file object and has not changed the marker.
C14_FailureWritesNothing ==
  [][(SyncReturns /\ sy'.outcome.kind = "failure") =>
       sy'.puts = {} /\ sy'.markerPuts = 0]_vars

\* The rule of C15 for a file, on its path below the source directory of
\* the step: an excluded suffix, the backup pattern, or a segment that is
\* an excluded directory name.
ClaimExcluded(rel) ==
  \/ \E i \in 1..Len(rel) : rel[i] \in {<<".git">>, <<"node_modules">>}
  \/ LET name == rel[Len(rel)]
     IN name # <<>> /\ name[Len(name)] \in {".lock", ".log", ".tmp", ".sample"}
  \/ \E i \in 1..Len(rel) : \E j \in 1..Len(rel[i]) :
       rel[i][j] = ".bak" /\ (j < Len(rel[i]) \/ i = Len(rel))

\* The keys C15 expects from the given steps for the given files.
ExpectedKeys(files, configDir, steps) ==
  UNION { LET st == syncSteps(configDir)[i]
          IN { st.r2Prefix \o RelativeTo(p, st.sourcePath) :
                 p \in { q \in DOMAIN files :
                           /\ StartsWith(q, st.sourcePath)
                           /\ ~ClaimExcluded(RelativeTo(q, st.sourcePath))
                           /\ ~(i = 2 /\ StartsWith(q, SkillsDir)) } }
          : i \in steps }

\* Restriction of a function to the arguments outside a set.
Without(f, S) == [x \in DOMAIN f \ S |-> f[x]]

\* C15: in a sync step a listed entry is uploaded if and only if it is a
\* regular file whose path matches no excluded suffix, no backup pattern,
\* has no segment equal to an excluded directory name and does not lie
\* under the excluded subdirectory of the step.  Every put is of such a
\* file; a sync that succeeds has put all of them, save the files whose
\* read reported no success and the steps whose listing failed.  For the
\* workspace files a.json, b.lock, c.log, d.bak-20240101 and skills/x.md
\* only workspace/a.json is written under the workspace prefix.
C15_UploadedIffNotExcluded ==
  /\ [][sy'.puts \subseteq sy.puts \cup ExpectedKeys(sy.source, sy.configDir,
                                              {sy.step} \cap {1, 2, 3})]_vars
  /\ [][(SyncReturns /\ sy'.outcome.kind = "success") =>
          /\ sy'.puts = ExpectedKeys(Without(sy.source, sy'.unread), sy.configDir,
                                     {1, 2, 3} \ sy'.unlisted)
          /\ sy'.puts \subseteq DOMAIN store'
          /\ (sy.source = FilesWith(ExampleFiles) /\ sy'.unread = {} /\ sy'.unlisted = {}) =>
               {k \in sy'.puts : k[1] = <<"workspace">>}
                 = {<<<<"workspace">>, <<"a", ".json">>>>}]_vars

\* The example has been synced with success: of the workspace files only
\* a.json is in the bucket, and x.md is under the skills prefix.
C15_Witness ==
  /\ sy.outcome.kind = "success"
  /\ sy.source = FilesWith(ExampleFiles)
  /\ sy.puts = {<<<<"openclaw">>, <<"openclaw", ".json">>>>,
                <<<<"workspace">>, <<"a", ".json">>>>,
                <<<<"skills">>, <<"x", ".md">>>>}
  /\ DOMAIN store = sy.puts \cup {MarkerKey}

\* A step in which restoreFromR2 returns a result or rejects.
RestoreReturns == rs' # rs /\ rs'.pc = "idle" /\ rs'.outcome.kind # "none"

\* The config directory a sync of the given files reads.
ConfigDirOf(files) ==
  IF NewConfigFile \in DOMAIN files THEN NewConfigDir ELSE LegacyConfigDir

\* The files of the three source directories that C15 does not exclude.
BackedUp(files) ==
  {p \in DOMAIN files :
     \E i \in 1..3 :
       LET dir == syncSteps(ConfigDirOf(files))[i].sourcePath
       IN StartsWith(p, dir) /\ ~ClaimExcluded(RelativeTo(p, dir))}

\* C16: a successful sync followed by a restore into an empty target
\* reproduces, at its original path, byte-identical content for every
\* non-excluded file that was in the three source directories, and the
\* lastSync returned by the restore is the marker timestamp written by
\* that sync.  It is stated here for the runs in which no call of the sync
\* or of the restore failed.
C16_RoundTrip ==
  [][(/\ RestoreReturns
      /\ faults' = 0
      /\ rs'.outcome.kind = "success"
      /\ rs.emptyTarget
      /\ sy.outcome.kind = "success"
      /\ DOMAIN store = sy.puts \cup {MarkerKey}) =>
       /\ rs'.outcome.lastSync = sy.outcome.lastSync
       /\ \A p \in BackedUp(sy.source) :
            p \in DOMAIN fs' /\ fs'[p] = sy.source[p]]_vars

\* The objects of the bucket that a restore step lists, with a path below
\* the prefix of the step.
Restorable ==
  {k \in DOMAIN store :
     /\ \E i \in 1..3 : k[1] = restoreSteps[i].r2Prefix[1]
     /\ Tail(k) # <<<<>>>>
     /\ ~ClaimExcluded(Tail(k))}

\* The rule of C17 for a key: its path below the prefix has the segments
\* agents, <id>, sessions above the file, and it ends in .jsonl.
ClaimSession(k) ==
  LET rel == Tail(k)
      name == rel[Len(rel)]
  IN /\ \E i \in 1..Len(rel) :
          /\ i + 3 <= Len(rel)
          /\ rel[i] = <<"agents">> /\ rel[i + 1] # <<>> /\ rel[i + 2] = <<"sessions">>
     /\ name # <<>> /\ name[Len(name)] = ".jsonl"

\* Where the restore step of a key puts its file.
TargetOf(k) ==
  LET i == CHOOSE j \in 1..3 : k[1] = restoreSteps[j].r2Prefix[1]
  IN restoreSteps[i].targetPath \o Tail(k)

\* The elements of a sequence.
Range(seq) == {seq[i] : i \in 1..Len(seq)}

\* C17: during restore every non-excluded object whose relative path lies
\* under agents/<id>/sessions/ (at any depth below the prefix) and ends in
\* .jsonl is put in the returned deferred key set and is neither fetched
\* nor written: restore issues no mkdir, get or writeFile for it, so it
\* never waits on it.  Every other non-excluded object is written and is
\* not in the deferred set.  After a restore into an empty sandbox the
\* deferred files are absent from it.
C17_SessionFilesDeferred ==
  /\ [](\A k \in rs.mkdirs \cup rs.fetched \cup rs.written \cup DOMAIN rs.chains :
          ~ClaimSession(k))
  /\ [][(/\ RestoreReturns
         /\ rs'.outcome.kind = "success"
         /\ rs'.outcome.details # "No backup found") =>
          /\ Range(rs'.outcome.deferredKeys) = {k \in Restorable : ClaimSession(k)}
          /\ rs'.written = {k \in Restorable : ~ClaimSession(k)}
          /\ \A k \in rs'.written : TargetOf(k) \in DOMAIN fs'
          /\ rs.emptyTarget =>
               \A k \in Range(rs'.outcome.deferredKeys) : TargetOf(k) \notin DOMAIN fs']_vars

\* A restore into an empty sandbox has returned with one object written
\* and one session transcript deferred.
C17_Witness ==
  /\ rs.pc = "idle" /\ rs.outcome.kind = "success" /\ rs.emptyTarget
  /\ rs.outcome.deferredKeys # <<>>
  /\ rs.written # {}
  /\ \A k \in Range(rs.outcome.deferredKeys) : TargetOf(k) \notin DOMAIN fs

\* C18: sync and restore never throw: every failure of a store call or of
\* a sandbox call is reported as a returned result with success = false.
C18_NeverThrows == sy.outcome.kind # "thrown" /\ rs.outcome.kind # "thrown"

\* The read or the upload of the current file of the sync fails in this
\* step.
SyncFileFails == sy.pc \in {"read", "put"} /\ faults' > faults

\* The fetch or the write of a file of the current batch of the restore
\* fails in this step.
RestoreFileFails ==
  /\ rs.pc = "batch"
  /\ \E k \in DOMAIN rs.chains :
       rs.chains[k].pc \in {"get", "write"} /\ rs'.chains[k].pc = "failed"

\* C19: during sync and restore the failure of a single file (its read,
\* upload, fetch or write) is skipped without aborting: the invocation
\* does not return, it goes on with the remaining files and steps.
C19_FileFailureSkipped ==
  [][/\ SyncFileFails => sy'.pc # "idle"
     /\ RestoreFileFails => rs'.pc # "idle"]_vars

\* C20: restore called when the store holds no backup marker returns
\* success with the detail "No backup found" and performs no object
\* listing, no object fetch other than the marker probe, and no sandbox
\* mkdir or write.  The result is stated for the probe that resolves.
C20_NoMarkerNoRestore ==
  /\ []((rs.pc # "idle" /\ MarkerKey \notin DOMAIN store) =>
          /\ rs.pc = "marker"
          /\ rs.lists = 0 /\ rs.chains = << >>)
  /\ [][(RestoreReturns /\ bucketBound /\ MarkerKey \notin DOMAIN store) =>
          /\ rs'.markerGets = 1
          /\ rs'.lists = 0
          /\ rs'.fetched = {} /\ rs'.mkdirs = {} /\ rs'.written = {}
          /\ rs'.chains = << >>
          /\ fs' = fs
          /\ faults' = faults =>
               rs'.outcome = [NoOutcome EXCEPT !.kind = "success",
                                               !.details = "No backup found"]]_vars

\* A bucket that holds objects but no marker has been probed, and the
\* restore has returned "No backup found" leaving the sandbox empty.
C20_Witness ==
  /\ rs.pc = "idle"
  /\ rs.outcome.kind = "success" /\ rs.outcome.details = "No backup found"
  /\ rs.markerGets = 1
  /\ store # << >> /\ MarkerKey \notin DOMAIN store
  /\ fs = << >>

\* C21: when no object store is configured, sync and restore return
\* success = false with the error "R2 storage is not configured" and
\* perform no sandbox or store operation: neither ever awaits a call, and
\* the files and the objects are as they were.
C21_UnconfiguredNoOps ==
  /\ [](~bucketBound =>
          /\ sy.pc = "idle" /\ rs.pc = "idle"
          /\ sy.puts = {} /\ sy.markerPuts = 0
          /\ rs.markerGets = 0 /\ rs.lists = 0 /\ rs.chains = << >>
          /\ rs.mkdirs = {} /\ rs.fetched = {} /\ rs.written = {}
          /\ sy.outcome \in {NoOutcome, Failure("R2 storage is not configured")}
          /\ rs.outcome \in {NoOutcome, Failure("R2 storage is not configured")})
  /\ [][(~bucketBound /\ ops' = ops + 1) =>
          /\ \/ sy' = [SyncIdle EXCEPT !.outcome = Failure("R2 storage is not configured")]
             \/ rs' = [RestoreIdle EXCEPT !.outcome = Failure("R2 storage is not configured")]
          /\ fs' = fs /\ store' = store /\ faults' = faults]_vars

\* Without a bucket, a sync and a restore have been called on a sandbox
\* that holds files, and each has returned the error.
C21_Witness ==
  /\ ~bucketBound
  /\ fs # << >>
  /\ sy.outcome = Failure("R2 storage is not configured")
  /\ rs.outcome = Failure("R2 storage is not configured")

\* C22: when ensureReady throws, the catch-all proxy answers that request
\* with status 503 and error "Moltbot gateway failed to start" and never
\* forwards it to the container.
C22_ThrowAnswers503 ==
  \A r \in Requests :
    (reqs[r].ensured = "threw" \/ reqs[r].background = "threw") =>
      /\ reqs[r].response = GatewayFailedResponse
      /\ reqs[r].containerFetches = 0 /\ reqs[r].wsConnects = 0

\* C22 as amended: the 503 answer is that of the ensureReady the proxy
\* awaits.  No call to the container is issued before that ensureReady
\* has resolved, and none ever when it threw.  When the ensureReady that
\* runs in the background behind the loading page throws, the request
\* has been answered with the loading page and is not forwarded either.
C22_AwaitedThrowAnswers503 ==
  \A r \in Requests :
    /\ reqs[r].ensured = "threw" =>
         /\ reqs[r].pc = "answered"
         /\ reqs[r].response = GatewayFailedResponse
    /\ reqs[r].ensured # "ready" =>
         reqs[r].containerFetches = 0 /\ reqs[r].wsConnects = 0
    /\ reqs[r].background # "none" =>
         /\ reqs[r].ensured = "none"
         /\ reqs[r].pc = "answered"
         /\ reqs[r].response = LoadingPageResponse

\* One request was answered 503 after its ensureReady threw, and the
\* background ensureReady of another, served the loading page, threw too.
C22_Witness ==
  \E r, q \in Requests :
    /\ reqs[r].ensured = "threw" /\ reqs[r].response.status = 503
    /\ reqs[q].background = "threw" /\ reqs[q].response.status = 200

\* C23: when findExisting returns a process and its port becomes
\* reachable within the startup timeout, ensureReady returns that same
\* process and issues no startProcess, no restore and no kill of that
\* process, and leaves the throttle timestamp and the in-flight start slot
\* unchanged: neither the step that begins the wait nor the step that
\* ends it touches them, and the process waited on is none of the zombies
\* its findExisting kills.
C23_ExistingReturnedUntouched ==
  /\ [](\A c \in Callers :
          (inv[c].pc = "killZombie" /\ inv[c].existingProcess # 0) =>
            \A i \in 1..Len(inv[c].zombiesToKill) :
              inv[c].zombiesToKill[i] # inv[c].existingProcess)
  /\ [](\A c \in Callers :
          inv[c].pc = "waitPort" =>
            /\ inv[c].op = "ensure"
            /\ inv[c].existingProcess \in 1..Len(procs)
            /\ inv[c].awaiting = 0)
  /\ [][\A c \in Callers :
          (inv[c].pc # "waitPort" /\ inv'[c].pc = "waitPort") =>
            /\ startVars' = startVars
            /\ configPresent' = configPresent
            /\ kills'[inv'[c].existingProcess] = kills[inv'[c].existingProcess]]_vars
  /\ [][\A c \in Callers :
          (inv[c].pc = "waitPort" /\ result'[c].kind = "process") =>
            /\ result'[c] = ProcessResult(inv[c].existingProcess)
            /\ inv'[c] = Idle
            /\ now - inv[c].waitSince < STARTUP_TIMEOUT_MS
            /\ startVars' = startVars
            /\ StartCalls' = StartCalls
            /\ sandboxVars' = sandboxVars]_vars

\* A caller has waited on the process that findExisting found and has
\* returned that process, which nothing has killed; no start attempt was
\* made and the throttle timestamp and the slot are as they began.
C23_Witness ==
  \E c \in Callers :
    /\ result[c].kind = "process"
    /\ inv[c].pc = "idle"
    /\ attempts = <<>> /\ lastStartAttemptAt = 0 /\ startInFlight = 0
    /\ kills[result[c].proc] = 0

\* Attempt k moves on from program point p in this step.
Leaves(k, p) ==
  k \in 1..Len(attempts) /\ attempts[k].pc = p /\ attempts'[k].pc # p

\* C24 as stated: inside a start attempt restore() is invoked if and only
\* if neither the current nor the legacy config marker exists locally.
C24_RestoreIffNoMarker ==
  [][\A k \in 1..MaxCalls :
       Leaves(k, "exists") => (attempts'[k].pc = "restore" <=> ~configPresent)]_vars

\* C24, amended: restore() is invoked if and only if both existence probes
\* resolve and neither marker exists locally; a failure of the probes or
\* of restore never fails the attempt, whose next call is startProcess.
C24_RestoreIffProbedNoMarker ==
  /\ [][\A k \in 1..MaxCalls :
          Leaves(k, "exists") =>
            /\ attempts'[k].probes \in {"ok", "threw"}
            /\ attempts'[k].pc = "restore"
                 <=> (attempts'[k].probes = "ok" /\ ~configPresent)
            /\ attempts'[k].pc \in {"restore", "start"}
            /\ attempts'[k].outcome = "none"
            /\ startInFlight' = startInFlight /\ result' = result]_vars
  /\ [][\A k \in 1..MaxCalls :
          Leaves(k, "restore") =>
            /\ attempts'[k].restore \in {"ok", "failed"}
            /\ attempts'[k].pc = "start"
            /\ attempts'[k].outcome = "none"
            /\ startInFlight' = startInFlight /\ result' = result]_vars
  /\ [](\A k \in 1..Len(attempts) :
          attempts[k].pc \in {"exists", "restore", "start"} =>
            attempts[k].proc = 0 /\ attempts[k].outcome = "none")

\* A restore that was invoked with no marker present has failed, and the
\* attempt waits for the startProcess it has issued.
C24_Witness ==
  \E k \in 1..Len(attempts) :
    /\ attempts[k].pc = "start"
    /\ attempts[k].probes = "ok" /\ attempts[k].restore = "failed"
    /\ ~configPresent

\* The callers that await attempt k.
WaitersOf(k) == {c \in Callers : inv[c].pc = "awaitStart" /\ inv[c].awaiting = k}

\* C25: when the port wait of a newly started process fails, ensureReady
\* kills that process, ignoring a kill failure, before it rejects; it
\* rejects with the descriptive error (logs fetched) or with the original
\* wait error (log retrieval failed), and the start slot is empty
\* afterwards.  The failed wait leads to the kill, the kill to getLogs
\* whether or not it succeeded, and getLogs to the rejection of every
\* awaiting caller.
C25_FailedWaitKillsThenRejects ==
  /\ [][\A k \in 1..MaxCalls :
          (Leaves(k, "wait") /\ ~attempts'[k].portOk) =>
            /\ attempts'[k].pc = "kill"
            /\ kills' = kills /\ procs' = procs
            /\ startInFlight' = startInFlight /\ result' = result]_vars
  /\ [][\A k \in 1..MaxCalls :
          Leaves(k, "kill") =>
            /\ attempts'[k].pc = "failLogs"
            /\ kills'[attempts[k].proc] = kills[attempts[k].proc] + 1
            /\ \A i \in 1..Len(procs) : i # attempts[k].proc =>
                  kills'[i] = kills[i] /\ procs'[i] = procs[i]
            /\ startInFlight' = startInFlight /\ result' = result]_vars
  /\ [][\A k \in 1..MaxCalls :
          Leaves(k, "failLogs") =>
            /\ attempts'[k].pc = "settled"
            /\ attempts'[k].outcome \in {"descErr", "waitErr"}
            /\ kills[attempts[k].proc] >= 1
            /\ sandboxVars' = sandboxVars
            /\ startInFlight' = 0
            /\ WaitersOf(k) # {}
            /\ \A c \in WaitersOf(k) :
                  /\ result'[c] = ErrorResult(attempts'[k].outcome)
                  /\ inv'[c] = Idle]_vars
  /\ [](\A k \in 1..Len(attempts) :
          /\ attempts[k].pc = "failLogs" => kills[attempts[k].proc] >= 1
          /\ attempts[k].outcome \in {"descErr", "waitErr"} =>
                kills[attempts[k].proc] >= 1)

\* The port wait of a new process failed, the kill of that process failed
\* too, log retrieval failed, and the caller holds the original wait
\* error; the start slot is empty.
C25_Witness ==
  \E k \in 1..Len(attempts), c \in Callers :
    /\ attempts[k].outcome = "waitErr" /\ ~attempts[k].portOk
    /\ kills[attempts[k].proc] = 1
    /\ procs[attempts[k].proc].status = "running"
    /\ result[c] = ErrorResult("waitErr")
    /\ startInFlight = 0

\* A refresh returns a snapshot to caller c in this step: the cached one,
\* or the one a listing delivers.
RefreshReturns(c) == inv[c].pc \in {"idle", "awaitList"} /\ inv'[c].pc = "classify"

\* The snapshot that this step returns was read before a zombie kill of a
\* findExisting whose invalidation has already run.
ReturnsPreKill(c) ==
  IF inv[c].pc = "awaitList" /\ ~lastListError'
  THEN listInFlight.preKill
  ELSE cachedProcesses.preKill

\* C26: after findExisting has killed at least one zombie the process
\* cache is invalidated, after the kills, and no refresh that returns
\* after the invalidation returns a snapshot that was fetched before those
\* kills completed, even when it was in flight during the kills.
C26_NoPreKillSnapshot ==
  /\ [][\A c \in Callers :
          (inv[c].pc = "killZombie" /\ inv'[c].pc # "killZombie") =>
            ~cachedProcesses'.present /\ cachedAt' = 0]_vars
  /\ [][\A c \in Callers : RefreshReturns(c) => ~ReturnsPreKill(c)]_vars

\* What findExisting returns for the canonical process g (0 for none).
Returned(g) == IF g = 0 THEN NullResult ELSE FoundResult(g)

\* C27: findExisting never throws.  When the listing fails and no stale
\* snapshot can be served it returns null and kills nothing.  When the
\* kill of a zombie settles, failed or not, the kill has been issued, the
\* next zombie is taken up, and after the last one the cache is
\* invalidated and the canonical process of the snapshot is returned.
C27_FindNeverThrows ==
  /\ [](\A c \in Callers : result[c].kind \in {"none", "null", "found"})
  /\ [](\A c \in Callers :
          inv[c].pc = "killZombie" =>
            /\ inv[c].zombiesToKill # <<>>
            /\ inv[c].killed \o inv[c].zombiesToKill
                 = Classify(inv[c].processes).zombiesToKill
            /\ inv[c].existingProcess = Classify(inv[c].processes).gatewayProcess)
  /\ [][\A c \in Callers :
          (inv[c].pc = "listFailed" /\ Steps(c)) =>
            /\ result'[c] = NullResult
            /\ inv'[c] = Idle
            /\ inv[c].killed = <<>>
            /\ sandboxVars' = sandboxVars]_vars
  /\ [][\A c \in Callers :
          (inv[c].pc = "killZombie" /\ Steps(c)) =>
            LET z == Head(inv[c].zombiesToKill)
            IN /\ kills'[z] = kills[z] + 1
               /\ IF Len(inv[c].zombiesToKill) > 1
                  THEN /\ inv'[c].pc = "killZombie"
                       /\ inv'[c].zombiesToKill = Tail(inv[c].zombiesToKill)
                       /\ result'[c] = NoResult
                  ELSE /\ inv'[c] = Idle
                       /\ result'[c] = Returned(inv[c].existingProcess)
                       /\ cachedProcesses' = NoCache /\ cachedAt' = 0]_vars

\* The kill of a duplicate gateway has failed (the duplicate still runs),
\* the cache is invalidated and the caller holds the canonical process.
C27_Witness ==
  \E c \in Callers, z \in 1..Len(procs) :
    /\ result[c].kind = "found" /\ inv[c].pc = "idle"
    /\ z # result[c].proc
    /\ kills[z] >= 1 /\ IsLive(procs[z].status)
    /\ ~cachedProcesses.present

\* The backend listing settles in this step; it succeeded if it replaced
\* the snapshot and its fetch time, and failed if it left them alone.
ListingSettles == listInFlight.pending /\ ~listInFlight'.pending
ListingSucceeded == ListingSettles /\ <<cachedProcesses, cachedAt>>' # <<cachedProcesses, cachedAt>>
ListingFailed == ListingSettles /\ <<cachedProcesses, cachedAt>>' = <<cachedProcesses, cachedAt>>

\* C28: getHealth reflects the outcome of the most recent backend listing.
\* After a failed listing lastError is non-null and lastErrorAt is the time
\* of the failure, whether the awaiting callers were served a stale
\* snapshot or the error; after a successful listing lastError is null and
\* lastErrorAt is 0; no other step (a refresh served from the cache, a
\* zombie kill, the passing of time) changes either field.
C28_HealthReflectsLastListing ==
  /\ [][ListingFailed =>
          /\ getProcessListHealth' = [lastError |-> TRUE, lastErrorAt |-> now]
          /\ now > 0
          /\ \A c \in Awaiting : inv'[c].pc \in {"classify", "listFailed"}]_vars
  /\ [][ListingSucceeded =>
          getProcessListHealth' = [lastError |-> FALSE, lastErrorAt |-> 0]]_vars
  /\ [][~ListingSettles => getProcessListHealth' = getProcessListHealth]_vars
  /\ [](getProcessListHealth.lastError <=> getProcessListHealth.lastErrorAt # 0)

\* A listing has failed, the caller that awaited it was served the stale
\* snapshot, and the health record holds the error and its time.
C28_Witness ==
  \E c \in Callers :
    /\ inv[c].pc = "classify"
    /\ cachedProcesses.present /\ inv[c].processes = cachedProcesses.list
    /\ now - cachedAt >= PROCESS_LIST_TTL_MS
    /\ getProcessListHealth = [lastError |-> TRUE, lastErrorAt |-> now]

\* The backup marker a bucket holds, if any.
MarkerIn(objects) == IF MarkerKey \in DOMAIN objects THEN <<objects[MarkerKey]>> ELSE <<>>

\* C29: within a sync the backup marker is written after every file upload
\* of all three steps and only when no store call threw.  The marker put
\* is the last call of a sync that has passed its three steps and has put
\* every file it was to put; the marker changes by that put alone; a sync
\* that aborts leaves the marker as it was; no file is put once the marker
\* of the sync is written.
C29_MarkerLast ==
  /\ [][sy'.markerPuts > sy.markerPuts =>
          /\ sy.pc = "marker" /\ sy.step = 3 /\ sy.files = <<>>
          /\ SyncReturns /\ sy'.outcome.kind = "success"
          /\ sy'.puts = sy.puts
          /\ sy.puts = ExpectedKeys(Without(sy.source, sy.unread), sy.configDir,
                                    {1, 2, 3} \ sy.unlisted)
          /\ MarkerIn(store') = <<Utf8Encode(sy'.outcome.lastSync)>>]_vars
  /\ [][MarkerIn(store') # MarkerIn(store) => sy'.markerPuts > sy.markerPuts]_vars
  /\ [][(SyncReturns /\ sy'.outcome.kind # "success") =>
          /\ MarkerIn(store') = MarkerIn(store)
          /\ sy'.markerPuts = 0]_vars
  /\ [][sy'.puts \ sy.puts # {} =>
          sy.pc = "put" /\ sy.markerPuts = 0 /\ sy'.markerPuts = 0]_vars
  /\ [](sy.pc # "idle" => sy.markerPuts = 0)
  /\ [](sy.markerPuts <= 1)

\* A sync has put a file and then aborted on a store call that threw: the
\* bucket holds the file and no marker.
C29_Witness ==
  /\ sy.pc = "idle"
  /\ sy.outcome = [Failure("Sync error") EXCEPT !.details = sy.outcome.details]
  /\ sy.puts # {}
  /\ sy.markerPuts = 0
  /\ MarkerIn(store) = <<>>

\* The objects of the bucket under the prefix of restore step i, and those
\* of them that restoreFromR2 is to write at once or to defer.
KeysOfStep(i) == Range(KeysFrom(store, restoreSteps[i].r2Prefix, 1))
ImmediateOfStep(i) ==
  {k \in KeysOfStep(i) :
     LET rel == RelativeTo(k, restoreSteps[i].r2Prefix)
     IN HasRelPath(k, restoreSteps[i].r2Prefix) /\ ~shouldExclude(rel) /\ ~isSessionFile(rel)}
DeferredOfStep(i) ==
  {k \in KeysOfStep(i) :
     LET rel == RelativeTo(k, restoreSteps[i].r2Prefix)
     IN HasRelPath(k, restoreSteps[i].r2Prefix) /\ ~shouldExclude(rel) /\ isSessionFile(rel)}

\* The pages bucket.list reports for the prefix of step i.
PagesOfStep(i) ==
  LET n == Cardinality(KeysOfStep(i))
  IN IF n = 0 THEN 1 ELSE (n + PageLimit - 1) \div PageLimit

\* restoreFromR2 returns success after it has listed the prefixes.
RestoreSucceeds ==
  /\ rs.pc # "idle" /\ rs'.pc = "idle"
  /\ rs'.outcome.kind = "success" /\ rs'.lists > 0

\* C30: for each of the three prefixes restore() follows the listing cursor
\* until a page reports not truncated.  A restore that succeeds has
\* listed every page of every prefix once, has written every object that
\* is neither excluded nor a session file nor a zero-length key, has
\* deferred every session file once, and has begun no transfer twice;
\* the cursor only grows within a prefix.  Every restore that is called
\* returns, the store's listing being finite.
C30_PagesFollowedOnce ==
  /\ [][RestoreSucceeds =>
          /\ rs'.lists = PagesOfStep(1) + PagesOfStep(2) + PagesOfStep(3)
          /\ rs'.written = ImmediateOfStep(1) \cup ImmediateOfStep(2) \cup ImmediateOfStep(3)
          /\ rs'.mkdirs = rs'.written /\ rs'.fetched = rs'.written
          /\ Range(rs'.outcome.deferredKeys)
               = DeferredOfStep(1) \cup DeferredOfStep(2) \cup DeferredOfStep(3)
          /\ Len(rs'.outcome.deferredKeys)
               = Cardinality(Range(rs'.outcome.deferredKeys))]_vars
  /\ [][(rs.pc # "idle" /\ rs'.mkdirs # rs.mkdirs) =>
          /\ rs'.pc = "batch"
          /\ rs'.mkdirs \ rs.mkdirs = DOMAIN rs'.chains
          /\ DOMAIN rs'.chains \cap rs.mkdirs = {}
          /\ DOMAIN rs'.chains \subseteq ImmediateOfStep(rs'.step)]_vars
  /\ [][(rs.pc = "list" /\ rs'.pc # "idle" /\ rs'.step = rs.step) =>
          rs'.cursor > rs.cursor \/ ~rs'.truncated]_vars
  /\ ((rs.pc # "idle") ~> (rs.pc = "idle"))

\* A restore has succeeded after following a cursor: it listed more pages
\* than prefixes, wrote the files of two pages, and discarded an excluded
\* object.
C30_Witness ==
  /\ rs.pc = "idle" /\ rs.outcome.kind = "success"
  /\ rs.lists > 3
  /\ Cardinality(rs.written) >= 2
  /\ \E k \in DOMAIN store : k # MarkerKey /\ k \notin rs.written
\* ------------------------------------------------------------------------
\* C31: while restoreFromR2 runs at most 5 of its transfers are in flight,
\* while restoreDeferredFiles runs at most 3 of its transfers are; and when
\* either begins a batch, no transfer that was in flight before the batch
\* is still in flight.
\* ------------------------------------------------------------------------
BeginsBatch == rs'.mkdirs \ rs.mkdirs # {}
BeginsDeferredBatch == df'.batches > df.batches \/ (df'.batches > 0 /\ df.pc = "idle")

DeferredReturns == df' # df /\ df'.pc = "idle"

Mapped(k) ==
  /\ \E j \in 1..3 : k[1] = restoreSteps[j].r2Prefix[1]
  /\ Tail(k) # <<<<>>>>

C32_DeferredSkipsAndGoesOn ==
  /\ [](df.outcome # "thrown")
  /\ [][DeferredReturns =>
          LET wanted == {k \in Range(df'.arg) : Mapped(k)}
          IN /\ df'.outcome = "returned"
             /\ df'.mkdirs = wanted
             /\ df'.written \subseteq wanted \cap DOMAIN store
             /\ Cardinality((wanted \cap DOMAIN store) \ df'.written) <= faults'
             /\ Transferring(df'.chains) = {}]_vars
  /\ [][\A k \in df'.written \ df.written :
          /\ TargetOf(k) \in DOMAIN fs'
          /\ fs'[TargetOf(k)] = RestoredBytes(store[k])]_vars

\* restoreDeferredFiles has returned after two batches: a key under no
\* prefix was skipped, a call of one transfer failed, another transfer of
\* the same batch wrote its file, and the key of the second batch has no
\* object.
C32_Witness ==
  /\ df.outcome = "returned"
  /\ df.batches = 2
  /\ faults = 1
  /\ df.arg = <<KeyOrder[4], MoreKeys[4], KeyOrder[13], MoreKeys[3]>>
  /\ df.written = {KeyOrder[13]}
  /\ MoreKeys[3] \in df.mkdirs

\* ------------------------------------------------------------------------
\* C33: the status route answers "busy", and calls no ensureMoltbotGateway,
\* exactly when findExisting returned no process and a listing error is on
\* record that is less than 15 s old; it answers "starting", and calls
\* ensureMoltbotGateway in the background, exactly when findExisting
\* returned no process and no such error is on record; it answers
\* "running" only when findExisting returned a process and the wait for
\* its port resolved.
\* ------------------------------------------------------------------------
Answers(c) == hs[c].kind = "status" /\ hs[c].response = "none" /\ hs'[c].response # "none"

NoneFound(c) == hs[c].pc = "find" /\ result[c].kind = "null"

C34_CronSyncsAfterStart ==
  /\ [](\A c \in Callers : hs[c].kind = "cron" /\ hs[c].synced => hs[c].process # 0)
  /\ [][\A c \in Callers :
          (/\ hs[c].kind = "cron" /\ hs[c].pc = "find" /\ hs'[c].pc # "find"
           /\ result[c].kind = "null") =>
            hs'[c].pc = "ensure" /\ ~hs'[c].synced]_vars
  /\ [](\A c \in Callers :
          hs[c].kind = "cron" /\ hs[c].pc = "done" /\ hs[c].ensured # 0 => hs[c].synced)
  /\ [](\A c \in Callers : hs[c].outcome # "thrown")

\* A request carries a signature header that verifies against its raw body
\* under the secret, with a timestamp at most 300 s from now.
ClaimVerifies(q) ==
  /\ q.signature.present /\ q.signature.tPart /\ q.signature.v1Part
  /\ q.signature.v1 = <<q.webhookSecret, <<q.signature.t, q.rawText>>>>
  /\ q.signature.t - NowSec <= 300
  /\ NowSec - q.signature.t <= 300

\* ------------------------------------------------------------------------
\* C35: with a webhook secret configured, a POST to /blooio/inbound is
\* forwarded to the gateway only if it carries a signature header whose
\* code is that of its timestamp and the raw body under the secret and
\* whose timestamp is at most 300 s from now; once the gateway is ready,
\* a request whose signature is missing, malformed, mismatching or stale
\* is answered 401 and nothing is forwarded.
\* ------------------------------------------------------------------------
C35_OnlyVerifiedWebhooksForwarded ==
  \A r \in Requests :
    reqs[r].isBlooioInbound /\ reqs[r].webhookSecret # "" =>
      /\ reqs[r].containerFetches > 0 => ClaimVerifies(reqs[r])
      /\ reqs[r].ensured = "ready" /\ ~ClaimVerifies(reqs[r]) =>
           reqs[r].response.status = 401 /\ reqs[r].containerFetches = 0

\* The positions of an invocation and of a start attempt, in the order of
\* the function's text.
InvocationRank(pc) ==
  CASE pc = "awaitList" -> 1
    [] pc \in {"classify", "listFailed"} -> 2
    [] pc = "killZombie" -> 3
    [] pc = "waitPort" -> 4
    [] pc = "killExisting" -> 5
    [] pc = "awaitStart" -> 6
    [] pc = "idle" -> 7

AttemptRank(pc) ==
  CASE pc = "exists" -> 1
    [] pc = "restore" -> 2
    [] pc = "start" -> 3
    [] pc = "wait" -> 4
    [] pc = "logs" -> 5
    [] pc = "kill" -> 6
    [] pc = "failLogs" -> 7
    [] pc = "settled" -> 8

\* ------------------------------------------------------------------------
\* C36: an ensureMoltbotGateway invocation issues at most one startProcess
\* and at most one kill of an existing process, and it does not loop:
\* every step of the invocation and of its start attempt moves it
\* forward through the function (the zombie loop through its list), a
\* start attempt is created only by an invocation that then awaits it
\* until it settles, and when the attempt fails the invocation throws
\* without a new attempt.
\* ------------------------------------------------------------------------
C36_OneStartNoRetry ==
  [][ /\ \A c \in Callers :
          inv[c].pc # "idle" /\ inv'[c] # inv[c] =>
            \/ InvocationRank(inv'[c].pc) > InvocationRank(inv[c].pc)
            \/ /\ inv[c].pc = "killZombie" /\ inv'[c].pc = "killZombie"
               /\ Len(inv'[c].zombiesToKill) < Len(inv[c].zombiesToKill)
      /\ \A k \in 1..Len(attempts) :
          /\ attempts'[k] # attempts[k] =>
               AttemptRank(attempts'[k].pc) > AttemptRank(attempts[k].pc)
          /\ (/\ attempts[k].pc # "settled" /\ attempts'[k].pc = "settled"
              /\ attempts'[k].outcome # "ok") =>
               /\ Len(attempts') = Len(attempts)
               /\ \A c \in Callers :
                    inv[c].pc = "awaitStart" /\ inv[c].awaiting = k =>
                      inv'[c].pc = "idle" /\ result'[c] = ErrorResult(attempts'[k].outcome)
      /\ Len(procs') > Len(procs) =>
          /\ Len(procs') = Len(procs) + 1
          /\ \E k \in 1..Len(attempts) : attempts[k].pc = "start" /\ attempts'[k].pc = "wait"
      /\ Len(attempts') > Len(attempts) =>
          /\ Len(attempts') = Len(attempts) + 1
          /\ \E c \in Callers :
               /\ inv[c].op = "ensure" /\ inv[c].pc # "awaitStart"
               /\ inv'[c].pc = "awaitStart" /\ inv'[c].awaiting = Len(attempts')
      /\ \A c \in Callers :
          inv[c].pc = "killExisting" /\ inv'[c] # inv[c] =>
            /\ kills'[inv[c].existingProcess] = kills[inv[c].existingProcess] + 1
            /\ \A i \in 1..Len(kills) : i # inv[c].existingProcess => kills'[i] = kills[i]
            /\ inv'[c].pc \in {"idle", "awaitStart"}]_vars

\* One invocation killed the existing process, started a new one once, saw
\* it fail and threw: no second attempt was made.
C36_Witness ==
  /\ calls = 1 /\ Len(attempts) = 1
  /\ attempts[1].pc = "settled" /\ attempts[1].outcome \in {"descErr", "waitErr"}
  /\ attempts[1].proc # 0
  /\ \E i \in 1..Len(procs) : i # attempts[1].proc /\ kills[i] = 1
  /\ Len(procs) = 2
  /\ \E c \in Callers : result[c] = ErrorResult(attempts[1].outcome)

\* listProcessesCached returns a snapshot to caller c in this step.
ReceivesSnapshot(c) == inv[c].pc \in {"idle", "awaitList"} /\ inv'[c].pc = "classify"

\* ------------------------------------------------------------------------
\* C37: listProcessesCached never returns a snapshot that, at the moment
\* it is returned, is older than the staleness bound (15 s), to the
\* caller whose backend call failed or to a caller that joined the
\* pending call.
\* ------------------------------------------------------------------------
C37_ReturnedSnapshotYoung ==
  [][\A c \in Callers :
       ReceivesSnapshot(c) => now' - cachedAt' <= PROCESS_LIST_STALE_MS]_vars

\* ------------------------------------------------------------------------
\* C38: when syncToR2 returns success, every regular file that was in the
\* three source directories when it was called and that no exclusion rule
\* covers is in the bucket under its key with the content read: no file
\* was skipped because its step's listing or its read failed.
\* ------------------------------------------------------------------------
C38_SuccessMeansAllUploaded ==
  [][(SyncReturns /\ sy'.outcome.kind = "success") =>
       \A i \in 1..3 : \A p \in DOMAIN sy.source :
         LET st == syncSteps(sy.configDir)[i]
         IN (/\ StartsWith(p, st.sourcePath)
             /\ ~ClaimExcluded(RelativeTo(p, st.sourcePath))
             /\ ~(i = 2 /\ StartsWith(p, SkillsDir))) =>
              /\ st.r2Prefix \o RelativeTo(p, st.sourcePath) \in DOMAIN store'
              /\ store'[st.r2Prefix \o RelativeTo(p, st.sourcePath)]
                   = UploadBytes(ReadFile(sy.source[p]))]_vars

\* The prefixes of the sync steps, the objects written in a step, and a
\* step in which restoreFromR2 returns success with a backup restored.
SyncPrefixes == {<<"openclaw">>, <<"workspace">>, <<"skills">>}

Written == {k \in DOMAIN store' : k \notin DOMAIN store \/ store'[k] # store[k]}

RestoresBackup ==
  /\ RestoreReturns
  /\ rs'.outcome.kind = "success"
  /\ rs'.outcome.details # "No backup found"

\* ------------------------------------------------------------------------
\* C39: syncToR2 only writes objects and deletes none, and it writes only
\* the marker and keys under openclaw/, workspace/ and skills/: the set of
\* keys of the bucket never shrinks, so an object whose source file is gone
\* from the sandbox stays in the bucket and is written back by a later
\* restoreFromR2.
\* ------------------------------------------------------------------------
C39_StaleObjectWrittenBack ==
  /\ [][DOMAIN store \subseteq DOMAIN store']_vars
  /\ [][\A k \in Written : sy.pc # "idle" /\ (k = MarkerKey \/ k[1] \in SyncPrefixes)]_vars
  /\ [][RestoresBackup =>
          \A k \in Restorable :
            TargetOf(k) \in DOMAIN fs' /\ fs'[TargetOf(k)] = RestoredBytes(store[k])]_vars

\* C39, amended: as above, except that a session transcript that stays in
\* the bucket is not written back by restoreFromR2 but returned among its
\* deferred keys.
C39_StaleObjectWrittenBackOrDeferred ==
  /\ [][DOMAIN store \subseteq DOMAIN store']_vars
  /\ [][\A k \in Written : sy.pc # "idle" /\ (k = MarkerKey \/ k[1] \in SyncPrefixes)]_vars
  /\ [][RestoresBackup =>
          \A k \in Restorable :
            IF ClaimSession(k)
            THEN k \in Range(rs'.outcome.deferredKeys)
            ELSE TargetOf(k) \in DOMAIN fs' /\ fs'[TargetOf(k)] = RestoredBytes(store[k])]_vars

\* A sync succeeded in a sandbox that no longer had the source file of an
\* object of the bucket, and a later restore has written that object back.
C39_Witness ==
  /\ sy.outcome.kind = "success"
  /\ rs.pc = "idle" /\ rs.outcome.kind = "success"
  /\ \E k \in Restorable :
       /\ k \notin sy.puts
       /\ TargetOf(k) \notin DOMAIN sy.source
       /\ ~ClaimSession(k)
       /\ TargetOf(k) \in DOMAIN fs

\* ------------------------------------------------------------------------
\* C40: after a successful restoreFromR2 of a backup written by a
\* successful syncToR2, one of the two config files that
\* ensureMoltbotGateway probes (process.ts lines 191-194) exists in the
\* sandbox, so the next start skips the restore; also when the backup was
\* taken from a sandbox with the legacy config directory only.  Stated for
\* the syncs that skipped no step and no file.
\* ------------------------------------------------------------------------
C40_RestoredConfigFound ==
  [][(/\ RestoresBackup
      /\ sy.outcome.kind = "success"
      /\ sy.unread = {} /\ sy.unlisted = {}
      /\ DOMAIN store = sy.puts \cup {MarkerKey}) =>
       (NewConfigFile \in DOMAIN fs' \/ LegacyConfigFile \in DOMAIN fs')]_vars

====
